---- MODULE Spec2Model ----
(***************************************************************************)
(* resolve-imports-loader: the specifier-resolution engine.                *)
(*                                                                         *)
(* The model follows the loader as it is shipped by the package's root     *)
(* index.js: transformLoader.js -> core.js (addTransforms,                 *)
(* findExportedSpecifier, findNextSpecifier, addTransformData) ->          *)
(* specResolver.js (the Map cache filled through the spec-loader) ->       *)
(* babel.js (createBabelPlugin, visitor, toTransform).                     *)
(*                                                                         *)
(* A module of the project is a sequence of top-level declaration nodes.   *)
(* The specifier extractors turn the nodes into ImportSpecifier and        *)
(* ExportSpecifier records; the chain resolver walks those records.        *)
(***************************************************************************)
EXTENDS Integers, Sequences, FiniteSets, TLC

\* JavaScript's null / undefined, where the code does not tell them apart.
NULL == "null"
\* A null where a ResolvedPath is expected, and a null where a specifier is.
NoPath == [original |-> NULL]
NoSpecifier == [cls |-> NULL]

(***************************************************************************)
(* constants.js: the specifier and declaration types.                      *)
(***************************************************************************)
default == "default"
namespace == "namespace"
named == "named"
unknown == "unknown"
import == "import"
export == "export"

(***************************************************************************)
(* The files of the project.  "f" is the module the transform-loader is    *)
(* rewriting; "a", "b", "c" are the modules its imports lead to.  They     *)
(* stand for the absolute paths of f.js, a.js, b.js and c.js in one        *)
(* directory.  A source string is written "./a", which Webpack resolves    *)
(* by trying the extension, or in full "./a.js".  "reacty" is a request    *)
(* that Webpack cannot resolve.                                            *)
(***************************************************************************)
Files == {"f", "a", "b", "c"}

\* PathResolver#resolveImpl by way of loader.resolve: the absolute path, or
\* NULL where loader.resolve calls back with an error.
resolvePathFn(request) ==
    CASE request \in {"./f", "./f.js"} -> "f"
      [] request \in {"./a", "./a.js"} -> "a"
      [] request \in {"./b", "./b.js"} -> "b"
      [] request \in {"./c", "./c.js"} -> "c"
      [] OTHER -> NULL

\* new ResolvedPath(originalPath, resolvedPath, loaders, query), for requests
\* without inline loaders and query: `original` is the request as written and
\* `resolved` the absolute path.
ResolvedPath(originalPath, resolvedPath) ==
    [original |-> originalPath, resolved |-> resolvedPath]

\* ResolvedPath#toString(context): the resolved path made relative to the
\* directory of the module being rewritten.  All modules of the model live in
\* one directory, so the relative path is "./" and the file's name in full.
toString(path) ==
    CASE path.resolved = "f" -> "./f.js"
      [] path.resolved = "a" -> "./a.js"
      [] path.resolved = "b" -> "./b.js"
      [] path.resolved = "c" -> "./c.js"

(***************************************************************************)
(* Babel AST nodes of the top-level declarations.                          *)
(***************************************************************************)
ImportSpecifierNode(local, imported) ==
    [node |-> "ImportSpecifier", local |-> local, imported |-> imported, exported |-> NULL]
ImportDefaultSpecifierNode(local) ==
    [node |-> "ImportDefaultSpecifier", local |-> local, imported |-> NULL, exported |-> NULL]
ImportNamespaceSpecifierNode(local) ==
    [node |-> "ImportNamespaceSpecifier", local |-> local, imported |-> NULL, exported |-> NULL]
ExportSpecifierNode(local, exported) ==
    [node |-> "ExportSpecifier", local |-> local, imported |-> NULL, exported |-> exported]
ExportNamespaceSpecifierNode(exported) ==
    [node |-> "ExportNamespaceSpecifier", local |-> NULL, imported |-> NULL, exported |-> exported]
ExportDefaultSpecifierNode(exported) ==
    [node |-> "ExportDefaultSpecifier", local |-> NULL, imported |-> NULL, exported |-> exported]

\* import <specifiers> from "<source>"
ImportDeclaration(specifiers, source) ==
    [kind |-> "ImportDeclaration", specifiers |-> specifiers, source |-> source,
     declaration |-> NULL]
\* export { <specifiers> } [from "<source>"]
ExportNamedDeclaration(specifiers, source) ==
    [kind |-> "ExportNamedDeclaration", specifiers |-> specifiers, source |-> source,
     declaration |-> NULL]
\* export default <identifier>, or export default <expression> (declaration = NULL)
ExportDefaultDeclaration(declaration) ==
    [kind |-> "ExportDefaultDeclaration", specifiers |-> <<>>, source |-> NULL,
     declaration |-> declaration]

\* Array#filter(Boolean) on a sequence of specifiers, some of them null.
RECURSIVE filterBoolean(_)
filterBoolean(s) ==
    IF s = <<>> THEN <<>>
    ELSE IF Head(s) = NoSpecifier THEN filterBoolean(Tail(s))
    ELSE <<Head(s)>> \o filterBoolean(Tail(s))

\* Array.prototype.concat.apply([], arrays)
RECURSIVE concatAll(_)
concatAll(ss) == IF ss = <<>> THEN <<>> ELSE Head(ss) \o concatAll(Tail(ss))

\* Array#find: the index of the first element satisfying Test, 0 if none.
FindIndex(s, Test(_)) ==
    IF \E i \in 1..Len(s) : Test(s[i])
    THEN CHOOSE i \in 1..Len(s) : Test(s[i]) /\ \A j \in 1..(i - 1) : ~Test(s[j])
    ELSE 0

(***************************************************************************)
(* extractImportSpecifiers.js                                              *)
(***************************************************************************)
getSimpleType_import(node) ==
    IF node.imported # NULL /\ node.imported = default THEN default
    ELSE IF node.node = "ImportDefaultSpecifier" THEN default
    ELSE IF node.node = "ImportNamespaceSpecifier" THEN namespace
    ELSE IF node.node = "ImportSpecifier" THEN named
    ELSE unknown

\* new ImportSpecifier(localName, importedName, path, type)
ImportSpecifier(localName, importedName, path, type) ==
    [cls |-> import, name |-> localName, importedName |-> importedName,
     exportedName |-> NULL, searchName |-> importedName, path |-> path, type |-> type]

ImportSpecifier_fromSpecifier(specifier, path) ==
    LET type == getSimpleType_import(specifier)
        localName == specifier.local
        importedName == IF type = default THEN default
                        ELSE IF specifier.imported # NULL THEN specifier.imported
                        ELSE localName
    IN IF type = unknown THEN NoSpecifier
       ELSE ImportSpecifier(localName, importedName, path, type)

(***************************************************************************)
(* extractExportSpecifiers.js                                              *)
(***************************************************************************)
getSimpleType_export(node) ==
    IF node.local # NULL /\ node.local = default THEN default
    ELSE IF node.node = "ExportDefaultSpecifier" THEN default
    ELSE IF node.node = "ExportNamespaceSpecifier" THEN namespace
    ELSE IF node.node = "ExportSpecifier" THEN named
    ELSE unknown

\* A constructor that searches for the exported name where nothing is imported.
ExportSpecifier_SearchExported(localName, importedName, exportedName, path, type) ==
    [cls |-> export, name |-> localName, importedName |-> importedName,
     exportedName |-> exportedName,
     searchName |-> IF importedName # NULL THEN importedName ELSE exportedName,
     path |-> path, type |-> type]

\* new ExportSpecifier(localName, importedName, exportedName, path, type)
ExportSpecifier(localName, importedName, exportedName, path, type) ==
    [cls |-> export, name |-> localName, importedName |-> importedName,
     exportedName |-> exportedName,
     searchName |-> IF importedName # NULL THEN importedName ELSE localName,
     path |-> path, type |-> type]

ExportSpecifier_fromDefaultExport(node) ==
    IF node.declaration = NULL THEN NoSpecifier
    ELSE ExportSpecifier(node.declaration, NULL, default, NoPath, default)

ExportSpecifier_fromSpecifier(specifier, path) ==
    LET type == getSimpleType_export(specifier)
        localName == IF specifier.local # NULL THEN specifier.local ELSE specifier.exported
        importedName == IF path = NoPath THEN NULL
                        ELSE IF type = default THEN default
                        ELSE localName
        exportedName == IF specifier.exported # NULL THEN specifier.exported
                        ELSE IF type = default THEN default
                        ELSE localName
    IN IF type = unknown THEN NoSpecifier
       ELSE ExportSpecifier(localName, importedName, exportedName, path, type)

\* The `resolve` closure handed to the extractors (PathResolver#resolve):
\* the ResolvedPath of a request, NULL standing for the thrown error.
resolve_path(request) ==
    IF resolvePathFn(request) = NULL THEN NoPath
    ELSE ResolvedPath(request, resolvePathFn(request))

\* Whether some declaration names a source the path-resolver rejects; the
\* extractor's promise is then rejected.
ExtractionThrows(declarations) ==
    \E i \in 1..Len(declarations) :
        /\ declarations[i].source # NULL
        /\ resolve_path(declarations[i].source) = NoPath

\* module.exports of extractImportSpecifiers.js
extractImports(declarations) ==
    filterBoolean(concatAll(
        [i \in 1..Len(declarations) |->
            [j \in 1..Len(declarations[i].specifiers) |->
                ImportSpecifier_fromSpecifier(declarations[i].specifiers[j],
                                              resolve_path(declarations[i].source))]]))

\* handleOtherExport
handleOtherExport(node) ==
    LET resolvedPath == IF node.source = NULL THEN NoPath ELSE resolve_path(node.source)
    IN [j \in 1..Len(node.specifiers) |->
            ExportSpecifier_fromSpecifier(node.specifiers[j], resolvedPath)]

\* module.exports of extractExportSpecifiers.js
extractExports(declarations) ==
    filterBoolean(concatAll(
        [i \in 1..Len(declarations) |->
            IF declarations[i].kind = "ExportDefaultDeclaration"
            THEN <<ExportSpecifier_fromDefaultExport(declarations[i])>>
            ELSE handleOtherExport(declarations[i])]))

(***************************************************************************)
(* specResolver.js: SpecifierResult, and the spec-loader that produces it. *)
(***************************************************************************)
\* What the spec-loader serialises when parsing or extraction failed.
NullResult == [tag |-> NULL]

\* new SpecifierResult(importSpecifiers, exportSpecifiers, hasSideEffects)
SpecifierResult(importSpecifiers, exportSpecifiers, hasSideEffects) ==
    [tag |-> "specifier-result", importSpecifiers |-> importSpecifiers,
     exportSpecifiers |-> exportSpecifiers, hasSideEffects |-> hasSideEffects]

\* get pathedSpecifiers()
pathedSpecifiers(result) ==
    result.importSpecifiers
        \o SelectSeq(result.exportSpecifiers, LAMBDA exp : exp.path # NoPath)

isImport(dec) == dec.kind = "ImportDeclaration"
isExport(dec) ==
    dec.kind = "ExportDefaultDeclaration" \/ dec.kind = "ExportNamedDeclaration"

\* SpecResolver#extractSpecifiers
extractSpecifiers(body, hasSideEffects) ==
    SpecifierResult(extractImports(SelectSeq(body, isImport)),
                    extractExports(SelectSeq(body, isExport)),
                    hasSideEffects)

\* A module's source text: whether Babel can parse it, and if so its
\* top-level declarations.
Module(body) == [parses |-> TRUE, body |-> body]
Unparsable == [parses |-> FALSE, body |-> <<>>]

\* specLoader.js, getSpecifiers and specifierNormalLoader: parse, extract,
\* and answer null on any failure ("NON-CRITICAL FAILURE").  hasSideEffects
\* is !instance.factoryMeta.sideEffectFree.
getSpecifiers(module, sideEffectFree) ==
    IF ~module.parses THEN NullResult
    ELSE IF ExtractionThrows(module.body) THEN NullResult
    ELSE extractSpecifiers(module.body, ~sideEffectFree)

(***************************************************************************)
(* The modules the model draws from.  Each file has a small menu of        *)
(* contents; together they contain plain re-export chains, import-then-    *)
(* export chains, aliases, default and namespace boundaries, local         *)
(* declarations, duplicate export names, a file Babel cannot parse, a      *)
(* request Webpack cannot resolve, and re-export cycles.                   *)
(***************************************************************************)
\* The module being rewritten.
RootMenu == {
    \* import { x } from "./a.js"
    Module(<<ImportDeclaration(<<ImportSpecifierNode("x", "x")>>, "./a.js")>>),
    \* import { x, y as n } from "./a"
    Module(<<ImportDeclaration(<<ImportSpecifierNode("x", "x"),
                                 ImportSpecifierNode("n", "y")>>, "./a")>>),
    \* import d from "./a"
    Module(<<ImportDeclaration(<<ImportDefaultSpecifierNode("d")>>, "./a")>>),
    \* import * as n from "./a"
    Module(<<ImportDeclaration(<<ImportNamespaceSpecifierNode("n")>>, "./a")>>),
    \* import d, { y } from "./a"
    Module(<<ImportDeclaration(<<ImportDefaultSpecifierNode("d"),
                                 ImportSpecifierNode("y", "y")>>, "./a")>>),
    \* import { x } from "./a"; import { y } from "./b"
    Module(<<ImportDeclaration(<<ImportSpecifierNode("x", "x")>>, "./a"),
             ImportDeclaration(<<ImportSpecifierNode("y", "y")>>, "./b")>>),
    \* import { x } from "./a"; import { y } from "./a"
    Module(<<ImportDeclaration(<<ImportSpecifierNode("x", "x")>>, "./a"),
             ImportDeclaration(<<ImportSpecifierNode("y", "y")>>, "./a")>>),
    \* import { x as n } from "./a"; export { y as n } from "./a"
    Module(<<ImportDeclaration(<<ImportSpecifierNode("n", "x")>>, "./a"),
             ExportNamedDeclaration(<<ExportSpecifierNode("y", "n")>>, "./a")>>),
    \* export { x as z } from "./a.js"; export default 1
    Module(<<ExportNamedDeclaration(<<ExportSpecifierNode("x", "z")>>, "./a.js"),
             ExportDefaultDeclaration(NULL)>>),
    \* export default 1
    Module(<<ExportDefaultDeclaration(NULL)>>),
    \* import d from "./a"; import { y } from "./b"
    Module(<<ImportDeclaration(<<ImportDefaultSpecifierNode("d")>>, "./a"),
             ImportDeclaration(<<ImportSpecifierNode("y", "y")>>, "./b")>>),
    \* import { x } from "./a"; import { y } from "reacty"
    Module(<<ImportDeclaration(<<ImportSpecifierNode("x", "x")>>, "./a"),
             ImportDeclaration(<<ImportSpecifierNode("y", "y")>>, "reacty")>>),
    Unparsable
}

MenuA == {
    \* const y = 1; export { x } from "./b"; export { y }; export default y
    Module(<<ExportNamedDeclaration(<<ExportSpecifierNode("x", "x")>>, "./b"),
             ExportNamedDeclaration(<<ExportSpecifierNode("y", "y")>>, NULL),
             ExportDefaultDeclaration("y")>>),
    \* import { x } from "./b"; import y from "./b"; export { x, y }
    Module(<<ImportDeclaration(<<ImportSpecifierNode("x", "x")>>, "./b"),
             ImportDeclaration(<<ImportDefaultSpecifierNode("y")>>, "./b"),
             ExportNamedDeclaration(<<ExportSpecifierNode("x", "x"),
                                      ExportSpecifierNode("y", "y")>>, NULL)>>),
    \* export { default as x } from "./b"; export * as y from "./c";
    \* export { default } from "./c"
    Module(<<ExportNamedDeclaration(<<ExportSpecifierNode(default, "x")>>, "./b"),
             ExportNamedDeclaration(<<ExportNamespaceSpecifierNode("y")>>, "./c"),
             ExportNamedDeclaration(<<ExportSpecifierNode(default, default)>>, "./c")>>),
    \* import * as x from "./b"; export { x }; export { z as y } from "./c"
    Module(<<ImportDeclaration(<<ImportNamespaceSpecifierNode("x")>>, "./b"),
             ExportNamedDeclaration(<<ExportSpecifierNode("x", "x")>>, NULL),
             ExportNamedDeclaration(<<ExportSpecifierNode("z", "y")>>, "./c")>>),
    \* import { y as x } from "./b"; export { x }; export { z as x } from "./c";
    \* export { x as y }
    Module(<<ImportDeclaration(<<ImportSpecifierNode("x", "y")>>, "./b"),
             ExportNamedDeclaration(<<ExportSpecifierNode("x", "x")>>, NULL),
             ExportNamedDeclaration(<<ExportSpecifierNode("z", "x")>>, "./c"),
             ExportNamedDeclaration(<<ExportSpecifierNode("x", "y")>>, NULL)>>),
    Unparsable
}

MenuB == {
    \* export { x } from "./a"; export { y } from "./c"
    Module(<<ExportNamedDeclaration(<<ExportSpecifierNode("x", "x")>>, "./a"),
             ExportNamedDeclaration(<<ExportSpecifierNode("y", "y")>>, "./c")>>),
    \* const x = 1, y = 2; export { x, y }; export default x
    Module(<<ExportNamedDeclaration(<<ExportSpecifierNode("x", "x"),
                                      ExportSpecifierNode("y", "y")>>, NULL),
             ExportDefaultDeclaration("x")>>),
    \* import { z as x } from "./c"; export { x }; export { x as y };
    \* export default x
    Module(<<ImportDeclaration(<<ImportSpecifierNode("x", "z")>>, "./c"),
             ExportNamedDeclaration(<<ExportSpecifierNode("x", "x")>>, NULL),
             ExportNamedDeclaration(<<ExportSpecifierNode("x", "y")>>, NULL),
             ExportDefaultDeclaration("x")>>),
    \* import { x } from "reacty"; export { x }
    Module(<<ImportDeclaration(<<ImportSpecifierNode("x", "x")>>, "reacty"),
             ExportNamedDeclaration(<<ExportSpecifierNode("x", "x")>>, NULL)>>)
}

MenuC == {
    \* const x = 1, y = 2, z = 3; export { x, y, z }; export default z
    Module(<<ExportNamedDeclaration(<<ExportSpecifierNode("x", "x"),
                                      ExportSpecifierNode("y", "y"),
                                      ExportSpecifierNode("z", "z")>>, NULL),
             ExportDefaultDeclaration("z")>>)
}

\* The texts a file may hold.
Menu(file) ==
    CASE file = "a" -> MenuA
      [] file = "b" -> MenuB
      [] file = "c" -> MenuC

\* What Webpack's build of a file through the spec-loader may come to: the
\* build fails, or it succeeds and factoryMeta.sideEffectFree is set or not.
BuildMenu(file) ==
    CASE file = "f" -> {"failed", "sideEffectFree"}
      [] file = "a" -> {"sideEffectFree", "sideEffects"}
      [] file = "b" -> {"failed", "sideEffectFree", "sideEffects"}
      [] file = "c" -> {"sideEffectFree"}

(***************************************************************************)
(* JavaScript Map, kept as the sequence of its entries in insertion order. *)
(* Map#set on a key already present replaces the value in place.           *)
(***************************************************************************)
MapHas(map, key) == \E i \in 1..Len(map) : map[i].key = key
MapGet(map, key) == map[CHOOSE i \in 1..Len(map) : map[i].key = key].value
MapSet(map, key, value) ==
    IF MapHas(map, key)
    THEN [i \in 1..Len(map) |->
            IF map[i].key = key THEN [key |-> key, value |-> value] ELSE map[i]]
    ELSE Append(map, [key |-> key, value |-> value])

(***************************************************************************)
(* core.js                                                                 *)
(***************************************************************************)
\* findNextSpecifier without its stop at namespace specifiers.
findNextSpecifier_FollowsNamespace(doDefaults, doSideEffects, specifier, fileSpecifiers) ==
    IF fileSpecifiers = NullResult
    THEN [specifier |-> NoSpecifier, hasSideEffects |-> FALSE]
    ELSE
    LET importSpecifiers == fileSpecifiers.importSpecifiers
        exportSpecifiers == fileSpecifiers.exportSpecifiers
        hasSideEffects == fileSpecifiers.hasSideEffects
        stop == [specifier |-> NoSpecifier, hasSideEffects |-> hasSideEffects]
        expIndex == FindIndex(exportSpecifiers,
                              LAMBDA exp : exp.exportedName = specifier.searchName)
    IN IF ~doDefaults /\ specifier.type = default THEN stop
       ELSE IF ~doSideEffects /\ hasSideEffects THEN stop
       ELSE IF expIndex = 0 THEN stop
       ELSE LET expPointer == exportSpecifiers[expIndex]
                impIndex == FindIndex(importSpecifiers,
                                      LAMBDA imp : imp.name = expPointer.name)
            IN IF expPointer.path # NoPath
               THEN [specifier |-> expPointer, hasSideEffects |-> hasSideEffects]
               ELSE IF impIndex # 0
               THEN [specifier |-> importSpecifiers[impIndex],
                     hasSideEffects |-> hasSideEffects]
               ELSE stop

\* findNextSpecifier without its stop at default specifiers.
findNextSpecifier_FollowsDefault(doDefaults, doSideEffects, specifier, fileSpecifiers) ==
    IF fileSpecifiers = NullResult
    THEN [specifier |-> NoSpecifier, hasSideEffects |-> FALSE]
    ELSE
    LET importSpecifiers == fileSpecifiers.importSpecifiers
        exportSpecifiers == fileSpecifiers.exportSpecifiers
        hasSideEffects == fileSpecifiers.hasSideEffects
        stop == [specifier |-> NoSpecifier, hasSideEffects |-> hasSideEffects]
        expIndex == FindIndex(exportSpecifiers,
                              LAMBDA exp : exp.exportedName = specifier.searchName)
    IN IF specifier.type = namespace THEN stop
       ELSE IF ~doSideEffects /\ hasSideEffects THEN stop
       ELSE IF expIndex = 0 THEN stop
       ELSE LET expPointer == exportSpecifiers[expIndex]
                impIndex == FindIndex(importSpecifiers,
                                      LAMBDA imp : imp.name = expPointer.name)
            IN IF expPointer.path # NoPath
               THEN [specifier |-> expPointer, hasSideEffects |-> hasSideEffects]
               ELSE IF impIndex # 0
               THEN [specifier |-> importSpecifiers[impIndex],
                     hasSideEffects |-> hasSideEffects]
               ELSE stop

\* findNextSpecifier without its stop at side-effecting files.
findNextSpecifier_IgnoresSideEffects(doDefaults, doSideEffects, specifier, fileSpecifiers) ==
    IF fileSpecifiers = NullResult
    THEN [specifier |-> NoSpecifier, hasSideEffects |-> FALSE]
    ELSE
    LET importSpecifiers == fileSpecifiers.importSpecifiers
        exportSpecifiers == fileSpecifiers.exportSpecifiers
        hasSideEffects == fileSpecifiers.hasSideEffects
        stop == [specifier |-> NoSpecifier, hasSideEffects |-> hasSideEffects]
        expIndex == FindIndex(exportSpecifiers,
                              LAMBDA exp : exp.exportedName = specifier.searchName)
    IN IF specifier.type = namespace THEN stop
       ELSE IF ~doDefaults /\ specifier.type = default THEN stop
       ELSE IF expIndex = 0 THEN stop
       ELSE LET expPointer == exportSpecifiers[expIndex]
                impIndex == FindIndex(importSpecifiers,
                                      LAMBDA imp : imp.name = expPointer.name)
            IN IF expPointer.path # NoPath
               THEN [specifier |-> expPointer, hasSideEffects |-> hasSideEffects]
               ELSE IF impIndex # 0
               THEN [specifier |-> importSpecifiers[impIndex],
                     hasSideEffects |-> hasSideEffects]
               ELSE stop

\* findNextSpecifier taking the last export of the searched name, not the
\* first.
\* findNextSpecifier that goes on from a local declaration, to the first
\* specifier of the file that names a source
findNextSpecifier_PastLocalDeclaration(doDefaults, doSideEffects, specifier, fileSpecifiers) ==
    IF fileSpecifiers = NullResult
    THEN [specifier |-> NoSpecifier, hasSideEffects |-> FALSE]
    ELSE
    LET importSpecifiers == fileSpecifiers.importSpecifiers
        exportSpecifiers == fileSpecifiers.exportSpecifiers
        hasSideEffects == fileSpecifiers.hasSideEffects
        stop == [specifier |-> NoSpecifier, hasSideEffects |-> hasSideEffects]
        expIndex == FindIndex(exportSpecifiers,
                              LAMBDA exp : exp.exportedName = specifier.searchName)
        pathed == pathedSpecifiers(fileSpecifiers)
    IN IF specifier.type = namespace THEN stop
       ELSE IF ~doDefaults /\ specifier.type = default THEN stop
       ELSE IF ~doSideEffects /\ hasSideEffects THEN stop
       ELSE IF expIndex = 0 THEN stop
       ELSE LET expPointer == exportSpecifiers[expIndex]
                impIndex == FindIndex(importSpecifiers,
                                      LAMBDA imp : imp.name = expPointer.name)
            IN IF expPointer.path # NoPath
               THEN [specifier |-> expPointer, hasSideEffects |-> hasSideEffects]
               ELSE IF impIndex # 0
               THEN [specifier |-> importSpecifiers[impIndex],
                     hasSideEffects |-> hasSideEffects]
               ELSE IF pathed # <<>>
               THEN [specifier |-> pathed[1], hasSideEffects |-> hasSideEffects]
               ELSE stop

\* findNextSpecifier that reports no side effects for a file it goes on from
findNextSpecifier_ForgetsSideEffects(doDefaults, doSideEffects, specifier, fileSpecifiers) ==
    IF fileSpecifiers = NullResult
    THEN [specifier |-> NoSpecifier, hasSideEffects |-> FALSE]
    ELSE
    LET importSpecifiers == fileSpecifiers.importSpecifiers
        exportSpecifiers == fileSpecifiers.exportSpecifiers
        hasSideEffects == fileSpecifiers.hasSideEffects
        stop == [specifier |-> NoSpecifier, hasSideEffects |-> hasSideEffects]
        expIndex == FindIndex(exportSpecifiers,
                              LAMBDA exp : exp.exportedName = specifier.searchName)
    IN IF specifier.type = namespace THEN stop
       ELSE IF ~doDefaults /\ specifier.type = default THEN stop
       ELSE IF ~doSideEffects /\ hasSideEffects THEN stop
       ELSE IF expIndex = 0 THEN stop
       ELSE LET expPointer == exportSpecifiers[expIndex]
                impIndex == FindIndex(importSpecifiers,
                                      LAMBDA imp : imp.name = expPointer.name)
            IN IF expPointer.path # NoPath
               THEN [specifier |-> expPointer, hasSideEffects |-> FALSE]
               ELSE IF impIndex # 0
               THEN [specifier |-> importSpecifiers[impIndex],
                     hasSideEffects |-> FALSE]
               ELSE stop

\* findNextSpecifier with Array#find replaced by the last match
findNextSpecifier_LastMatch(doDefaults, doSideEffects, specifier, fileSpecifiers) ==
    IF fileSpecifiers = NullResult
    THEN [specifier |-> NoSpecifier, hasSideEffects |-> FALSE]
    ELSE
    LET importSpecifiers == fileSpecifiers.importSpecifiers
        exportSpecifiers == fileSpecifiers.exportSpecifiers
        hasSideEffects == fileSpecifiers.hasSideEffects
        stop == [specifier |-> NoSpecifier, hasSideEffects |-> hasSideEffects]
        matches == {e \in 1..Len(exportSpecifiers) :
                        exportSpecifiers[e].exportedName = specifier.searchName}
        expIndex == IF matches = {} THEN 0
                    ELSE CHOOSE e \in matches : \A later \in matches : later <= e
    IN IF specifier.type = namespace THEN stop
       ELSE IF ~doDefaults /\ specifier.type = default THEN stop
       ELSE IF ~doSideEffects /\ hasSideEffects THEN stop
       ELSE IF expIndex = 0 THEN stop
       ELSE LET expPointer == exportSpecifiers[expIndex]
                impIndex == FindIndex(importSpecifiers,
                                      LAMBDA imp : imp.name = expPointer.name)
            IN IF expPointer.path # NoPath
               THEN [specifier |-> expPointer, hasSideEffects |-> hasSideEffects]
               ELSE IF impIndex # 0
               THEN [specifier |-> importSpecifiers[impIndex],
                     hasSideEffects |-> hasSideEffects]
               ELSE stop

\* findNextSpecifier, after `await specResolver.resolve(state, path.resolved)`
\* has answered fileSpecifiers.
findNextSpecifier(doDefaults, doSideEffects, specifier, fileSpecifiers) ==
    IF fileSpecifiers = NullResult
    THEN [specifier |-> NoSpecifier, hasSideEffects |-> FALSE]
    ELSE
    LET importSpecifiers == fileSpecifiers.importSpecifiers
        exportSpecifiers == fileSpecifiers.exportSpecifiers
        hasSideEffects == fileSpecifiers.hasSideEffects
        stop == [specifier |-> NoSpecifier, hasSideEffects |-> hasSideEffects]
        expIndex == FindIndex(exportSpecifiers,
                              LAMBDA exp : exp.exportedName = specifier.searchName)
    IN IF specifier.type = namespace THEN stop
       ELSE IF ~doDefaults /\ specifier.type = default THEN stop
       ELSE IF ~doSideEffects /\ hasSideEffects THEN stop
       ELSE IF expIndex = 0 THEN stop
       ELSE LET expPointer == exportSpecifiers[expIndex]
                impIndex == FindIndex(importSpecifiers,
                                      LAMBDA imp : imp.name = expPointer.name)
            IN IF expPointer.path # NoPath
               THEN [specifier |-> expPointer, hasSideEffects |-> hasSideEffects]
               ELSE IF impIndex # 0
               THEN [specifier |-> importSpecifiers[impIndex],
                     hasSideEffects |-> hasSideEffects]
               ELSE stop

\* The TransformData that addTransformData stores, and the key it stores it
\* under.
TransformData(inSpecifier, outSpecifier, sideEffects) ==
    LET isImportSpecifier == inSpecifier.cls = import
    IN [declarationType |-> IF isImportSpecifier THEN import ELSE export,
        specifierType |-> outSpecifier.type,
        exportedName |-> IF isImportSpecifier THEN outSpecifier.searchName
                         ELSE IF outSpecifier.importedName # NULL
                              THEN outSpecifier.importedName
                              ELSE outSpecifier.name,
        path |-> toString(outSpecifier.path),
        sideEffects |-> [k \in 1..Len(sideEffects) |-> toString(sideEffects[k].path)]]

\* addTransformData, on the TransformsMap that addSpecifiersFrom looked up
\* under specifier.path.original.
addTransformData(allTransforms, inSpecifier, outSpecifier, sideEffects) ==
    LET importedPath == inSpecifier.path.original
        identifier == IF inSpecifier.cls = import THEN inSpecifier.name
                      ELSE inSpecifier.exportedName
    IN MapSet(allTransforms, importedPath,
              MapSet(MapGet(allTransforms, importedPath), identifier,
                     TransformData(inSpecifier, outSpecifier, sideEffects)))

(***************************************************************************)
(* babel.js: the plugin that applies the AllTransformsMap to the AST.      *)
(***************************************************************************)
\* JavaScript Set, kept as the sequence of its members in insertion order.
SetAdd(set, member) ==
    IF \E i \in 1..Len(set) : set[i] = member THEN set ELSE Append(set, member)
SetDelete(set, member) == SelectSeq(set, LAMBDA m : m # member)

RECURSIVE SetAddAll(_, _)
SetAddAll(set, members) ==
    IF members = <<>> THEN set
    ELSE SetAddAll(SetAdd(set, Head(members)), Tail(members))

RECURSIVE SetDeleteAll(_, _)
SetDeleteAll(set, members) ==
    IF members = <<>> THEN set
    ELSE SetDeleteAll(SetDelete(set, Head(members)), Tail(members))

\* domains[declarationType].declaration
domainDeclaration(declarationType, specifiers, source) ==
    IF declarationType = import THEN ImportDeclaration(specifiers, source)
    ELSE ExportNamedDeclaration(specifiers, source)

\* domains[declarationType].defaultSpecifier
defaultSpecifier(declarationType, local, exported) ==
    IF declarationType = import THEN ImportDefaultSpecifierNode(local)
    ELSE IF local = exported THEN ExportDefaultSpecifierNode(exported)
    ELSE ExportSpecifierNode(local, exported)

\* domains[declarationType].namespaceSpecifier
namespaceSpecifier(declarationType, local, exported) ==
    IF declarationType = import THEN ImportNamespaceSpecifierNode(local)
    ELSE ExportNamespaceSpecifierNode(exported)

\* domains[declarationType].namedSpecifier
namedSpecifier(declarationType, local, exported) ==
    IF declarationType = import THEN ImportSpecifierNode(local, exported)
    ELSE ExportSpecifierNode(local, exported)

getSpecifierName(specifier) ==
    IF specifier.exported # NULL THEN specifier.exported ELSE specifier.local

\* toTransform(transformData, sideEffects)(localName): the declaration built;
\* the deletion from sideEffects is done by the visitor below.
toTransform(transformData, localName) ==
    LET data == MapGet(transformData, localName)
        specifier ==
            CASE data.specifierType = default ->
                    defaultSpecifier(data.declarationType, localName, data.exportedName)
              [] data.specifierType = namespace ->
                    namespaceSpecifier(data.declarationType, localName, data.exportedName)
              [] data.specifierType = named ->
                    namedSpecifier(data.declarationType, localName, data.exportedName)
    IN domainDeclaration(data.declarationType, <<specifier>>, data.path)

\* Whether the plugin's visitor is called for a declaration:
\* ImportDeclaration, and ExportNamedDeclaration with a source.
isVisited(dec) ==
    \/ dec.kind = "ImportDeclaration"
    \/ dec.kind = "ExportNamedDeclaration" /\ dec.source # NULL

\* specifierNames without the filter on visitedNames.
specifierNames_VisitsAgain(allTransforms, visitedNames, dec) ==
    IF ~isVisited(dec) THEN <<>>
    ELSE IF ~MapHas(allTransforms, dec.source) THEN <<>>
    ELSE IF Len(MapGet(allTransforms, dec.source)) # Len(dec.specifiers) THEN <<>>
    ELSE [j \in 1..Len(dec.specifiers) |-> getSpecifierName(dec.specifiers[j])]

\* The names for which visitor(context, path) produces transforms; empty
\* where it returns early.
specifierNames(allTransforms, visitedNames, dec) ==
    IF ~isVisited(dec) THEN <<>>
    ELSE IF ~MapHas(allTransforms, dec.source) THEN <<>>
    ELSE IF Len(MapGet(allTransforms, dec.source)) # Len(dec.specifiers) THEN <<>>
    ELSE SelectSeq([j \in 1..Len(dec.specifiers) |-> getSpecifierName(dec.specifiers[j])],
                   LAMBDA name : name \notin visitedNames)

\* createBabelPlugin: the sideEffects set collected from every TransformData.
collectSideEffects(allTransforms) ==
    SetAddAll(<<>>,
        concatAll([i \in 1..Len(allTransforms) |->
            concatAll([j \in 1..Len(allTransforms[i].value) |->
                allTransforms[i].value[j].value.sideEffects])]))

\* The plugin's context { allTransforms, visitedNames, sideEffects }, with the
\* program body under traversal.  The body is kept as one slot per authored
\* declaration; a slot holds the declaration, or the declarations that have
\* replaced it.  `queue` holds the places of the declarations Babel has still
\* to visit.  `threw` records a TypeError thrown by toTransform.
\* `transformed` and `skipped` are history: the names for which a visit
\* produced a transform, and the names a visit left out because they were in
\* visitedNames, in order.
BabelContext(body, allTransforms) ==
    [allTransforms |-> allTransforms,
     body |-> [d \in 1..Len(body) |-> <<body[d]>>],
     queue |-> [d \in 1..Len(body) |-> [slot |-> d, pos |-> 1]],
     visitedNames |-> {},
     sideEffects |-> collectSideEffects(allTransforms),
     threw |-> FALSE, transformed |-> <<>>, skipped |-> <<>>]

\* No plugin has been created.
NoContext ==
    [allTransforms |-> <<>>, body |-> <<>>, queue |-> <<>>, visitedNames |-> {},
     sideEffects |-> <<>>, threw |-> FALSE, transformed |-> <<>>, skipped |-> <<>>]

\* Babel visits the next declaration of its queue and calls the plugin's
\* visitor(context, path) for it.  The visitor either returns early, or adds
\* the names to visitedNames and replaces the declaration by its transforms
\* (path.replaceWithMultiple); toTransform deletes the path of each transform
\* from the sideEffects set.  Babel queues the declarations that
\* replaceWithMultiple inserts, so they are visited in their turn: this is
\* what visitedNames is kept for.  toTransform destructures
\* transformData.get(localName), which throws a TypeError when the map has no
\* such name, and the traversal ends there.
visit(context) ==
    LET at == Head(context.queue)
        slot == context.body[at.slot]
        dec == slot[at.pos]
        names == specifierNames(context.allTransforms, context.visitedNames, dec)
        filtered == SelectSeq(specifierNames(context.allTransforms, {}, dec),
                              LAMBDA name : name \in context.visitedNames)
        transformData == MapGet(context.allTransforms, dec.source)
        transforms == [k \in 1..Len(names) |-> toTransform(transformData, names[k])]
    IN IF names = <<>>
       THEN [context EXCEPT !.queue = Tail(@), !.skipped = @ \o filtered]
       ELSE IF \E k \in 1..Len(names) : ~MapHas(transformData, names[k])
       THEN [context EXCEPT
                !.queue = <<>>,
                !.visitedNames = @ \cup {names[k] : k \in 1..Len(names)},
                !.threw = TRUE]
       ELSE [allTransforms |-> context.allTransforms,
             body |-> [d \in 1..Len(context.body) |->
                          IF d = at.slot
                          THEN SubSeq(slot, 1, at.pos - 1) \o transforms
                                   \o SubSeq(slot, at.pos + 1, Len(slot))
                          ELSE context.body[d]],
             queue |-> Tail(context.queue)
                          \o [k \in 1..Len(names) |->
                                 [slot |-> at.slot, pos |-> at.pos + k - 1]],
             visitedNames |-> context.visitedNames
                                  \cup {names[k] : k \in 1..Len(names)},
             sideEffects |-> SetDeleteAll(context.sideEffects,
                                [k \in 1..Len(names) |-> transforms[k].source]),
             threw |-> FALSE,
             transformed |-> context.transformed \o names,
             skipped |-> context.skipped \o filtered]

\* post(file): a bare import is unshifted for every side-effect path still in
\* the set; the program body then is the generated code.
generatedCode(context) ==
    [k \in 1..Len(context.sideEffects) |->
        ImportDeclaration(<<>>, context.sideEffects[k])]
    \o concatAll([d \in 1..Len(context.body) |-> context.body[d]])

(***************************************************************************)
(* Bounds of the model.                                                    *)
(***************************************************************************)
\* The `depth` of findExportedSpecifier's loop is followed up to MaxDepth.
MaxDepth == 6

(***************************************************************************)
(* The state.                                                              *)
(***************************************************************************)
VARIABLES
    options,          \* the loader options read by setupState and transform
    disk,             \* the source text of each file, once it has been read
    factory,          \* Webpack's build of each file through the spec-loader
    cache,            \* SpecResolver#cache, of the compilation's shared context
    calls,            \* loader.loadModule calls that have not called back yet
    nextId,           \* the identity of the next object made by a loadModule call
    loads,            \* history: the number of loader.loadModule calls per request
    request,          \* state.request of the running transform
    pc,               \* where transform() is
    tasks,            \* the addSpecifiersFrom invocations of the running transform
    allTransformsMap, \* the AllTransformsMap of the running transform
    context,          \* the Babel plugin's context, and Babel's traversal
    outcome,          \* what the loader's callback was called with
    classifier,       \* the SideEffects instance of the side-effect classifier
    ignoreResults,    \* init: the IgnoreResult of each ignore-list entry, once settled
    created,          \* the promise SideEffects.create returned
    tested,           \* the last call of SideEffects#test, and what it returned
    webpackRequest,   \* a request string, its issuer and the context it is shown in
    resolvedRequest,  \* the ResolvedPath PathResolver#resolve made of the request
    emittedPath,      \* what ResolvedPath#toString(context) returned
    specCache,        \* SpecResolver#specCache of the future-based resolver
    pendingLoads,     \* state.loadModule calls of SpecResolver#resolve
    registrations     \* where SpecResolver#registerModule is, per module

loaderVars == <<options, disk, factory, cache, calls, nextId, loads,
                request, pc, tasks, allTransformsMap, context, outcome>>
classifierVars == <<classifier, ignoreResults, created, tested>>
requestVars == <<webpackRequest, resolvedRequest, emittedPath>>
futureVars == <<specCache, pendingLoads, registrations>>
notLoaderVars == <<classifierVars, requestVars, futureVars>>
notClassifierVars == <<loaderVars, requestVars, futureVars>>
notRequestVars == <<loaderVars, classifierVars, futureVars>>
notFutureVars == <<loaderVars, classifierVars, requestVars>>
vars == <<loaderVars, classifierVars, requestVars, futureVars>>

\* No side-effect classifier has been made.
NoClassifier ==
    /\ classifier = [didInit |-> FALSE]
    /\ ignoreResults = <<>>
    /\ created = "none"
    /\ tested = [result |-> "none"]

\* No future-based SpecResolver has been made.
NoFuture ==
    /\ specCache = <<>>
    /\ pendingLoads = <<>>
    /\ registrations = <<>>

\* No request is being resolved on its own.
NoRequest ==
    /\ webpackRequest = [request |-> <<>>]
    /\ resolvedRequest = [state |-> "none"]
    /\ emittedPath = <<>>

\* A file whose text has not been read yet.
Unread == [unread |-> TRUE]
\* Map#get(request) === undefined
Undefined == [obj |-> 0, value |-> NullResult]
\* No callback yet.
Pending == [status |-> "pending", body |-> <<>>]

\* The locals of one addSpecifiersFrom / findExportedSpecifier invocation.
\* `trail` is history: every value outSpecifier has held, in order.
NewTask(specifier) ==
    [pc |-> "new", inSpecifier |-> specifier, outSpecifier |-> NoSpecifier,
     hadSideEffects |-> FALSE, sideEffects |-> <<>>, depth |-> 0, trail |-> <<>>]

\* The transform-loader is about to run on "f".  The SpecResolver belongs to
\* the compilation's shared context, so the record of "f" may already be in
\* the cache (`warm`): an earlier transform of another module followed a chain
\* into "f" and loaded it.
Init ==
    /\ NoClassifier
    /\ NoRequest
    /\ NoFuture
    /\ options \in [doDefaults : BOOLEAN, doSideEffects : BOOLEAN,
                    syncMode : BOOLEAN, unsafeAstCache : BOOLEAN]
    /\ \E root \in RootMenu, warm \in BOOLEAN :
        /\ disk = [p \in Files |-> IF p = "f" THEN root ELSE Unread]
        /\ factory = [p \in Files |->
                        IF p = "f" /\ warm THEN "sideEffectFree" ELSE "unbuilt"]
        /\ cache = [p \in Files |->
                        IF p = "f" /\ warm
                        THEN [obj |-> 1, value |-> getSpecifiers(root, TRUE)]
                        ELSE Undefined]
        /\ nextId = IF warm THEN 2 ELSE 1
        /\ loads = [p \in Files |-> IF p = "f" /\ warm THEN 1 ELSE 0]
    /\ calls = {}
    /\ request = NULL
    /\ pc = "idle"
    /\ tasks = <<>>
    /\ allTransformsMap = <<>>
    /\ context = NoContext
    /\ outcome = Pending

\* loadSpecifiers: loader.loadModule(path, callback) is called for `file`
\* on behalf of `by` (0: the transform itself, i: its i-th specifier).
loadSpecifiers(by, file, callsNow) ==
    /\ calls' = callsNow \cup {[id |-> nextId, request |-> file, by |-> by]}
    /\ nextId' = nextId + 1
    /\ loads' = [loads EXCEPT ![file] = @ + 1]

\* SpecResolver#resolve up to its first await: the cached result if there is
\* one (answered TRUE), otherwise a loadSpecifiers call.
resolve(by, file, cacheNow, callsNow) ==
    IF cacheNow[file] # Undefined
    THEN calls' = callsNow /\ UNCHANGED <<nextId, loads>>
    ELSE loadSpecifiers(by, file, callsNow)

\* SpecResolver#resolveModule: always a loadSpecifiers call.
resolveModule(by, file, callsNow) == loadSpecifiers(by, file, callsNow)

\* The pc of a specifier's task after the resolve call above.
AfterResolveCall(file, cacheNow) ==
    IF cacheNow[file] # Undefined THEN "cached" ELSE "await"

\* transformImportsLoader: Webpack runs the loader on the module "f".
transformImportsLoader ==
    /\ UNCHANGED notLoaderVars
    /\ pc = "idle"
    /\ request' = "f"
    /\ pc' = "transform"
    /\ UNCHANGED <<options, disk, factory, cache, calls, nextId, loads, tasks,
                   allTransformsMap, context, outcome>>

\* transform with unsafeAstCache off: resolveNewAst up to its first await.
resolveNewAst ==
    /\ UNCHANGED notLoaderVars
    /\ pc = "transform"
    /\ ~options.unsafeAstCache
    /\ resolve(0, request, cache, calls)
    /\ pc' = IF cache[request] # Undefined THEN "cached" ELSE "await"
    /\ UNCHANGED <<options, disk, factory, cache, request, tasks,
                   allTransformsMap, context, outcome>>

\* transform with unsafeAstCache on: resolveCachedAst up to its first await.
resolveCachedAst ==
    /\ UNCHANGED notLoaderVars
    /\ pc = "transform"
    /\ options.unsafeAstCache
    /\ resolveModule(0, request, calls)
    /\ pc' = "await"
    /\ UNCHANGED <<options, disk, factory, cache, request, tasks,
                   allTransformsMap, context, outcome>>

\* The loader's callback is called: callback(null, code, map, meta) with the
\* generated code ("code"), with the source as it came in ("source"), the
\* same after two emitWarning calls ("warned"), or callback(err) ("error").
Callback(status, body) == [status |-> status, body |-> body]

\* The catch block of transform, every error going the way of the
\* non-critical ones.
catchError_Swallows(error) == Callback("warned", disk[request].body)

\* The catch block of transform: what the loader calls back with when
\* `error` was thrown.
catchError(error) ==
    CASE error = "abortSignal" -> Callback("source", disk[request].body)
      [] error \in {"SpecifierResolutionError", "AstParsingError"} ->
            Callback("warned", disk[request].body)
      [] OTHER -> Callback("error", <<>>)

\* transform, from the answer of resolverFn to the first await of
\* addTransforms (or to its return).
afterResolverFn(specifiers) ==
    LET module == disk[request]
    IN IF ~module.parses
       THEN \* astParser.parse throws AstParsingError
            /\ outcome' = Callback("warned", module.body)
            /\ pc' = "returned"
            /\ UNCHANGED <<tasks, allTransformsMap, context>>
       ELSE IF specifiers = NullResult
       THEN \* destructuring null throws a TypeError
            /\ outcome' = Callback("error", <<>>)
            /\ pc' = "returned"
            /\ UNCHANGED <<tasks, allTransformsMap, context>>
       ELSE IF Len(pathedSpecifiers(specifiers)) = 0
       THEN /\ outcome' = Callback("source", module.body)
            /\ pc' = "returned"
            /\ UNCHANGED <<tasks, allTransformsMap, context>>
       ELSE IF /\ ~options.doDefaults
               /\ Len(pathedSpecifiers(specifiers)) = 1
               /\ pathedSpecifiers(specifiers)[1].type = default
       THEN \* addTransforms returns the empty map at once, and the plugin is
            \* created with it
            /\ context' = BabelContext(module.body, <<>>)
            /\ pc' = "traversing"
            /\ UNCHANGED <<tasks, allTransformsMap, outcome>>
       ELSE /\ tasks' = [i \in 1..Len(pathedSpecifiers(specifiers)) |->
                            NewTask(pathedSpecifiers(specifiers)[i])]
            /\ pc' = "adding"
            /\ UNCHANGED <<allTransformsMap, context, outcome>>

\* resolveNewAst resumes with the result SpecResolver#resolve found cached.
resolveNewAstCached ==
    /\ UNCHANGED notLoaderVars
    /\ pc = "cached"
    /\ afterResolverFn(cache[request].value)
    /\ UNCHANGED <<options, disk, factory, cache, calls, nextId, loads,
                   request>>

\* addSpecifiersFrom for the i-th specifier, up to the first await of
\* findExportedSpecifier.  iterating.async starts every invocation before any
\* of them resumes; iterating.sync starts one when the one before returned.
addSpecifiersFrom(i) ==
    /\ UNCHANGED notLoaderVars
    /\ pc = "adding"
    /\ i \in 1..Len(tasks)
    /\ tasks[i].pc = "new"
    /\ \A j \in 1..(i - 1) :
          IF options.syncMode THEN tasks[j].pc = "done" ELSE tasks[j].pc # "new"
    /\ IF tasks[i].inSpecifier = NoSpecifier
       THEN \* `specifier.path` of null throws a TypeError, ahead of the
            \* sanity check of findExportedSpecifier: the invocation's
            \* promise is rejected.  iterating.sync rejects at once;
            \* iterating.async rejects once Array#map has started every
            \* invocation.
            /\ tasks' = [tasks EXCEPT ![i] = [@ EXCEPT !.pc = "failed"]]
            /\ IF options.syncMode \/ i = Len(tasks)
               THEN pc' = "returned" /\ outcome' = catchError("TypeError")
               ELSE UNCHANGED <<pc, outcome>>
            /\ UNCHANGED <<allTransformsMap, calls, nextId, loads>>
       ELSE LET specifier == tasks[i].inSpecifier
                importedPath == specifier.path.original
            IN /\ allTransformsMap' =
                     IF MapHas(allTransformsMap, importedPath) THEN allTransformsMap
                     ELSE MapSet(allTransformsMap, importedPath, <<>>)
               /\ tasks' = [tasks EXCEPT ![i] =
                     [@ EXCEPT !.pc = AfterResolveCall(specifier.path.resolved, cache),
                               !.depth = 1,
                               !.outSpecifier = specifier,
                               !.trail = <<specifier>>]]
               /\ resolve(i, specifier.path.resolved, cache, calls)
               /\ IF /\ ~options.syncMode
                     /\ i = Len(tasks)
                     /\ \E j \in 1..(i - 1) : tasks[j].pc = "failed"
                  THEN pc' = "returned" /\ outcome' = catchError("TypeError")
                  ELSE UNCHANGED <<pc, outcome>>
    /\ UNCHANGED <<options, disk, factory, cache, request, context>>

\* Every invocation of the running iteration has reached its first await.
AllStarted ==
    pc = "adding" /\ ~options.syncMode => \A j \in 1..Len(tasks) : tasks[j].pc # "new"

\* findExportedSpecifier's loop for the i-th specifier, from the answer of
\* specResolver.resolve inside findNextSpecifier to the next await, or to the
\* loop's exit and addTransformData.
findExportedSpecifier(i, fileSpecifiers, cacheNow, callsNow) ==
    \E found \in {findNextSpecifier(options.doDefaults, options.doSideEffects,
                                     tasks[i].outSpecifier, fileSpecifiers)} :
    LET t == tasks[i]
        nextSpecifier == found.specifier
    IN IF nextSpecifier = NoSpecifier
       THEN /\ tasks' = [tasks EXCEPT ![i] =
                  [t EXCEPT !.pc = "done", !.hadSideEffects = found.hasSideEffects]]
            /\ allTransformsMap' = addTransformData(allTransformsMap, t.inSpecifier,
                                                    t.outSpecifier, t.sideEffects)
            /\ calls' = callsNow
            /\ UNCHANGED <<nextId, loads>>
       ELSE /\ t.depth < MaxDepth
            /\ tasks' = [tasks EXCEPT ![i] =
                  [t EXCEPT !.pc = AfterResolveCall(nextSpecifier.path.resolved, cacheNow),
                            !.hadSideEffects = found.hasSideEffects,
                            !.depth = @ + 1,
                            !.sideEffects = IF found.hasSideEffects
                                            THEN Append(@, t.outSpecifier) ELSE @,
                            !.outSpecifier = nextSpecifier,
                            !.trail = Append(@, nextSpecifier)]]
            /\ resolve(i, nextSpecifier.path.resolved, cacheNow, callsNow)
            /\ UNCHANGED allTransformsMap

\* findNextSpecifier resumes with the result SpecResolver#resolve found cached.
findNextSpecifierCached(i) ==
    /\ UNCHANGED notLoaderVars
    /\ i \in 1..Len(tasks)
    /\ tasks[i].pc = "cached"
    /\ AllStarted
    /\ findExportedSpecifier(i, cache[tasks[i].outSpecifier.path.resolved].value,
                             cache, calls)
    /\ UNCHANGED <<options, disk, factory, cache, request, pc, context, outcome>>

\* The callback of loader.loadModule for the call c.  Webpack builds the
\* requested file through the spec-loader once (this call reads the file and
\* learns the build's outcome if no earlier call did), and answers either an
\* error or the spec-loader's output, which loadSpecifiers parses into a new
\* object, hands to the finalizer (cache.set) and resolves its promise with;
\* the awaiting code then runs on to its next await.
loadModuleCallback(c) ==
    /\ UNCHANGED notLoaderVars
    /\ c \in calls
    /\ AllStarted
    /\ \E build \in (IF factory[c.request] = "unbuilt"
                     THEN BuildMenu(c.request)
                     ELSE {factory[c.request]}) :
       /\ factory' = [factory EXCEPT ![c.request] = build]
       /\ IF build = "failed"
          THEN \* fail(new SpecifierResolutionError(request, err))
               /\ UNCHANGED <<disk, cache, nextId, loads, allTransformsMap, context>>
               /\ calls' = calls \ {c}
               /\ tasks' = IF c.by = 0 THEN tasks
                           ELSE [tasks EXCEPT ![c.by] = [@ EXCEPT !.pc = "failed"]]
               /\ IF pc \in {"await", "adding"}
                  THEN /\ pc' = "returned"
                       /\ outcome' = Callback("warned", disk[request].body)
                  ELSE UNCHANGED <<pc, outcome>>
          ELSE \E text \in (IF disk[c.request] = Unread
                            THEN Menu(c.request) ELSE {disk[c.request]}) :
               \E result \in {getSpecifiers(text, build = "sideEffectFree")} :
               LET cacheNow == [cache EXCEPT ![c.request] =
                                   [obj |-> c.id, value |-> result]]
               IN /\ disk' = [disk EXCEPT ![c.request] = text]
                  /\ cache' = cacheNow
                  /\ IF c.by = 0
                     THEN /\ afterResolverFn(result)
                          /\ calls' = calls \ {c}
                          /\ UNCHANGED <<nextId, loads>>
                     ELSE /\ findExportedSpecifier(c.by, result, cacheNow, calls \ {c})
                          /\ UNCHANGED <<pc, context, outcome>>
    /\ UNCHANGED <<options, request>>

\* transform, once addTransforms has returned: createBabelPlugin, and
\* babel.transformFromAstAsync starts to traverse the program body.
transformFromAstAsync ==
    /\ UNCHANGED notLoaderVars
    /\ pc = "adding"
    /\ \A i \in 1..Len(tasks) : tasks[i].pc = "done"
    /\ context' = BabelContext(disk[request].body, allTransformsMap)
    /\ pc' = "traversing"
    /\ UNCHANGED <<options, disk, factory, cache, calls, nextId, loads,
                   request, tasks, allTransformsMap, outcome>>

\* One step of Babel's traversal: the next declaration is visited.  When the
\* visitor throws, babel.transformFromAstAsync is rejected with a TypeError,
\* transform rethrows it and the loader calls back with the error.
visitor ==
    /\ UNCHANGED notLoaderVars
    /\ pc = "traversing"
    /\ context.queue # <<>>
    /\ context' = visit(context)
    /\ IF visit(context).threw
       THEN /\ pc' = "returned"
            /\ outcome' = Callback("error", <<>>)
       ELSE UNCHANGED <<pc, outcome>>
    /\ UNCHANGED <<options, disk, factory, cache, calls, nextId, loads,
                   request, tasks, allTransformsMap>>

\* The traversal is over: post(file), and the loader calls back with the
\* generated code.
post ==
    /\ UNCHANGED notLoaderVars
    /\ pc = "traversing"
    /\ context.queue = <<>>
    /\ outcome' = Callback("code", generatedCode(context))
    /\ pc' = "returned"
    /\ UNCHANGED <<options, disk, factory, cache, calls, nextId, loads,
                   request, tasks, allTransformsMap, context>>

Next ==
    \/ transformImportsLoader
    \/ resolveNewAst
    \/ resolveCachedAst
    \/ resolveNewAstCached
    \/ \E i \in 1..Len(tasks) : addSpecifiersFrom(i)
    \/ \E i \in 1..Len(tasks) : findNextSpecifierCached(i)
    \/ \E c \in calls : loadModuleCallback(c)
    \/ transformFromAstAsync
    \/ visitor
    \/ post

Spec == Init /\ [][Next]_vars

(***************************************************************************)
(* addTransforms called on its own.  core.js exports addTransforms, and    *)
(* the specifiers it is given are whatever its caller passes: here the     *)
(* pathed specifiers of the module, one of which may be null.              *)
(***************************************************************************)
\* `specifiers` with a null in place of the specifier at `hole` (none for 0).
WithNull(specifiers, hole) ==
    [i \in 1..Len(specifiers) |-> IF i = hole THEN NoSpecifier ELSE specifiers[i]]

\* addTransforms(state, specifiers, new Map()) has been called for "f" and
\* is past its early returns.
InitCore ==
    /\ NoClassifier
    /\ NoRequest
    /\ NoFuture
    /\ options \in [doDefaults : BOOLEAN, doSideEffects : BOOLEAN,
                    syncMode : BOOLEAN, unsafeAstCache : BOOLEAN]
    /\ \E root \in {m \in RootMenu : getSpecifiers(m, TRUE) # NullResult} :
       \E hole \in 0..Len(pathedSpecifiers(getSpecifiers(root, TRUE))) :
       LET specifiers == WithNull(pathedSpecifiers(getSpecifiers(root, TRUE)), hole)
       IN /\ Len(specifiers) > 0
          /\ options.doDefaults \/ Len(specifiers) > 1
                \/ (specifiers[1] # NoSpecifier /\ specifiers[1].type # default)
          /\ disk = [p \in Files |-> IF p = "f" THEN root ELSE Unread]
          /\ factory = [p \in Files |-> IF p = "f" THEN "sideEffectFree" ELSE "unbuilt"]
          /\ cache = [p \in Files |->
                        IF p = "f" THEN [obj |-> 1, value |-> getSpecifiers(root, TRUE)]
                        ELSE Undefined]
          /\ tasks = [i \in 1..Len(specifiers) |-> NewTask(specifiers[i])]
    /\ nextId = 2
    /\ loads = [p \in Files |-> IF p = "f" THEN 1 ELSE 0]
    /\ calls = {}
    /\ request = "f"
    /\ pc = "adding"
    /\ allTransformsMap = <<>>
    /\ context = NoContext
    /\ outcome = Pending

NextCore ==
    \/ \E i \in 1..Len(tasks) : addSpecifiersFrom(i)
    \/ \E i \in 1..Len(tasks) : findNextSpecifierCached(i)
    \/ \E c \in calls : loadModuleCallback(c)
    \/ transformFromAstAsync
    \/ visitor
    \/ post

SpecCore == InitCore /\ [][NextCore]_vars

(***************************************************************************)
(* Properties of the chain resolver.                                       *)
(***************************************************************************)
\* The tasks of the running transform.
Tasks == 1..Len(tasks)

\* The file a specifier points into.
FileOf(specifier) == specifier.path.resolved

\* C1: resolving a specifier terminates after finitely many hops, also when
\* re-exports form a cycle.  The hop taken from a specifier is a function of
\* that specifier, of the options and of the record of the file it points
\* into, none of which changes during a transform; so a chain that comes back
\* to a specifier it has already held repeats the same hops for ever.  The
\* claim therefore requires that no chain holds the same specifier twice.
C1_NoSpecifierHeldTwice ==
    \A i \in Tasks :
        \A j, k \in 1..Len(tasks[i].trail) :
            j < k => tasks[i].trail[j] # tasks[i].trail[k]

\* C5: the resolver never advances from a namespace specifier: no specifier
\* that a chain has left behind is of kind namespace, and a chain that starts
\* at a namespace specifier ends at that same specifier.
C5_NamespaceIsTerminal ==
    \A i \in Tasks :
        /\ \A k \in 1..(Len(tasks[i].trail) - 1) : tasks[i].trail[k].type # namespace
        /\ tasks[i].pc = "done" /\ tasks[i].inSpecifier.type = namespace
              => tasks[i].outSpecifier = tasks[i].inSpecifier

\* C5 happens: a chain has ended at a namespace specifier it reached by a hop,
\* in a file that has side effects, with both follow options on.
C5_Witness ==
    \E i \in Tasks :
        /\ tasks[i].pc = "done"
        /\ tasks[i].depth >= 2
        /\ tasks[i].outSpecifier.type = namespace
        /\ options.doDefaults /\ options.doSideEffects
        /\ cache[FileOf(tasks[i].outSpecifier)].value # NullResult
        /\ cache[FileOf(tasks[i].outSpecifier)].value.exportSpecifiers # <<>>

\* C6: with transformDefaultImports off the resolver never advances from a
\* default specifier: no specifier a chain has left behind is of kind default,
\* and a chain that starts at a default specifier ends at it.
C6_DefaultIsTerminal ==
    ~options.doDefaults =>
        \A i \in Tasks :
            /\ \A k \in 1..(Len(tasks[i].trail) - 1) : tasks[i].trail[k].type # default
            /\ tasks[i].pc = "done" /\ tasks[i].inSpecifier.type = default
                  => tasks[i].outSpecifier = tasks[i].inSpecifier

\* C6 happens: with the option off, a chain has ended at a default specifier
\* it reached by a hop, and the file that specifier points into does export
\* a default.
C6_Witness ==
    /\ ~options.doDefaults
    /\ \E i \in Tasks :
        /\ tasks[i].pc = "done"
        /\ tasks[i].depth >= 2
        /\ tasks[i].outSpecifier.type = default
        /\ cache[FileOf(tasks[i].outSpecifier)].value # NullResult
        /\ \E e \in 1..Len(cache[FileOf(tasks[i].outSpecifier)].value.exportSpecifiers) :
              cache[FileOf(tasks[i].outSpecifier)].value.exportSpecifiers[e].exportedName
                  = default

\* C7: with transformSideEffects off, the resolver does not advance into a
\* file whose record has hasSideEffects = true: no specifier a chain has left
\* behind points into such a file, so no specifier from inside it is returned.
C7_StopsAtSideEffects ==
    ~options.doSideEffects =>
        \A i \in Tasks :
            \A k \in 1..(Len(tasks[i].trail) - 1) :
                ~( /\ cache[FileOf(tasks[i].trail[k])].value # NullResult
                   /\ cache[FileOf(tasks[i].trail[k])].value.hasSideEffects )

\* C7 happens: with the option off, a chain has ended at a specifier that
\* points into a side-effecting file which exports the name searched for.
C7_Witness ==
    /\ ~options.doSideEffects
    /\ \E i \in Tasks :
        LET out == tasks[i].outSpecifier
        IN /\ tasks[i].pc = "done"
           /\ out.type = named
           /\ cache[FileOf(out)].value # NullResult
           /\ cache[FileOf(out)].value.hasSideEffects
           /\ \E e \in 1..Len(cache[FileOf(out)].value.exportSpecifiers) :
                 /\ cache[FileOf(out)].value.exportSpecifiers[e].exportedName = out.searchName
                 /\ cache[FileOf(out)].value.exportSpecifiers[e].path # NoPath

(***************************************************************************)
(* What an import binds, by the semantics of ES modules, read off the      *)
(* declarations on disk and not off the resolver's records.                *)
(***************************************************************************)
\* The export entries of a module body, in source order.
ExportEntries(body) ==
    concatAll([d \in 1..Len(body) |->
        IF body[d].kind = "ExportDefaultDeclaration"
        THEN <<[exported |-> default, local |-> body[d].declaration,
                source |-> NULL, node |-> "ExportDefaultDeclaration"]>>
        ELSE IF body[d].kind = "ExportNamedDeclaration"
        THEN [j \in 1..Len(body[d].specifiers) |->
                [exported |-> body[d].specifiers[j].exported,
                 local |-> body[d].specifiers[j].local,
                 source |-> body[d].source,
                 node |-> body[d].specifiers[j].node]]
        ELSE <<>>])

\* The import entries of a module body, in source order.
ImportEntries(body) ==
    concatAll([d \in 1..Len(body) |->
        IF body[d].kind = "ImportDeclaration"
        THEN [j \in 1..Len(body[d].specifiers) |->
                [local |-> body[d].specifiers[j].local,
                 imported |-> body[d].specifiers[j].imported,
                 source |-> body[d].source,
                 node |-> body[d].specifiers[j].node]]
        ELSE <<>>])

\* The export `name` of `file`, taken as it is: the file is not known, cannot
\* be parsed, or does not export the name.
OpaqueExport(file, name) == [kind |-> "export", file |-> file, name |-> name]
\* The module namespace object of `file`.
NamespaceOf(file) == [kind |-> "namespace", file |-> file, name |-> "*"]
\* A binding declared in `file` itself.
LocalBinding(file, name) == [kind |-> "local", file |-> file, name |-> name]
\* A chain of re-exports that does not end.
Circular == [kind |-> "circular", file |-> NULL, name |-> NULL]

\* The binding that the export `name` of the module requested as `source`
\* denotes.  `fuel` bounds the number of modules passed through.
RECURSIVE Binding(_, _, _)
Binding(source, name, fuel) ==
    LET file == resolvePathFn(source)
    IN IF fuel = 0 THEN Circular
       ELSE IF file = NULL THEN OpaqueExport(source, name)
       ELSE IF disk[file] = Unread THEN OpaqueExport(file, name)
       ELSE IF ~disk[file].parses THEN OpaqueExport(file, name)
       ELSE
       LET exports == ExportEntries(disk[file].body)
           imports == ImportEntries(disk[file].body)
           e == FindIndex(exports, LAMBDA x : x.exported = name)
           i == FindIndex(imports, LAMBDA x : x.local = exports[e].local)
       IN IF e = 0 THEN OpaqueExport(file, name)
          ELSE IF exports[e].source # NULL
          THEN CASE exports[e].node = "ExportNamespaceSpecifier" ->
                        IF resolvePathFn(exports[e].source) = NULL
                        THEN NamespaceOf(exports[e].source)
                        ELSE NamespaceOf(resolvePathFn(exports[e].source))
                 [] exports[e].node = "ExportDefaultSpecifier" ->
                        Binding(exports[e].source, default, fuel - 1)
                 [] OTHER -> Binding(exports[e].source, exports[e].local, fuel - 1)
          ELSE IF exports[e].local = NULL THEN LocalBinding(file, "*default*")
          ELSE IF i = 0 THEN LocalBinding(file, exports[e].local)
          ELSE CASE imports[i].node = "ImportNamespaceSpecifier" ->
                        IF resolvePathFn(imports[i].source) = NULL
                        THEN NamespaceOf(imports[i].source)
                        ELSE NamespaceOf(resolvePathFn(imports[i].source))
                 [] imports[i].node = "ImportDefaultSpecifier" ->
                        Binding(imports[i].source, default, fuel - 1)
                 [] OTHER -> Binding(imports[i].source, imports[i].imported, fuel - 1)

\* The number of modules a binding is followed through.
Fuel == MaxDepth + 2

\* What an import entry binds its local name to.
ImportBinding(entry) ==
    CASE entry.node = "ImportNamespaceSpecifier" ->
            IF resolvePathFn(entry.source) = NULL THEN NamespaceOf(entry.source)
            ELSE NamespaceOf(resolvePathFn(entry.source))
      [] entry.node = "ImportDefaultSpecifier" -> Binding(entry.source, default, Fuel)
      [] OTHER -> Binding(entry.source, entry.imported, Fuel)

\* t is the specifier a hop from s leads to: the first export of the file s
\* points into whose exportedName is s.searchName, if that export names a
\* source, or else the import specifier of that file which the export
\* re-exports.
HopLeadsTo(s, t) ==
    LET body == disk[FileOf(s)].body
        exports == extractExports(SelectSeq(body, isExport))
        imports == extractImports(SelectSeq(body, isImport))
        e == FindIndex(exports, LAMBDA x : x.exportedName = s.searchName)
    IN /\ e # 0
       /\ IF exports[e].path # NoPath THEN t = exports[e]
          ELSE \E i \in 1..Len(imports) : imports[i] = t /\ t.name = exports[e].name

\* C2: every hop of a chain goes from a specifier to the first export of its
\* source file whose exportedName equals its searchName, or to the import
\* that export re-exports; and in the generated code every local name that
\* the authored imports bind is bound by an import to the same original
\* binding.
C2_SameBinding ==
    outcome.status = "code" =>
        /\ \A i \in Tasks : \A k \in 1..(Len(tasks[i].trail) - 1) :
              HopLeadsTo(tasks[i].trail[k], tasks[i].trail[k + 1])
        /\ \A a \in 1..Len(ImportEntries(disk[request].body)) :
              \E g \in 1..Len(ImportEntries(outcome.body)) :
                  /\ ImportEntries(outcome.body)[g].local
                        = ImportEntries(disk[request].body)[a].local
                  /\ ImportBinding(ImportEntries(outcome.body)[g])
                        = ImportBinding(ImportEntries(disk[request].body)[a])

\* The identifier addTransformData files a specifier's TransformData under.
IdentifierOf(specifier) ==
    IF specifier.cls = import THEN specifier.name ELSE specifier.exportedName

\* The TransformData the plan holds for a specifier of the rewritten file.
PlanFor(specifier) ==
    MapGet(MapGet(allTransformsMap, specifier.path.original), IdentifierOf(specifier))

\* The chain of task i went on from its k-th specifier into a file whose
\* record says that it has side effects.
JumpedOver(i, k) ==
    /\ k < Len(tasks[i].trail)
    /\ cache[FileOf(tasks[i].trail[k])].value # NullResult
    /\ cache[FileOf(tasks[i].trail[k])].value.hasSideEffects

\* C3: when a chain jumps over a side-effecting file, the plan's sideEffects
\* for that specifier contain the file's path, and the generated code still
\* imports that path.  The claim asks for a bare import; the formula asks
\* only for some declaration of the generated code that names the path.
C3_SideEffectsKept ==
    outcome.status = "code" =>
        \A i \in Tasks : \A k \in 1..Len(tasks[i].trail) :
            JumpedOver(i, k) =>
                /\ \E e \in 1..Len(PlanFor(tasks[i].inSpecifier).sideEffects) :
                      PlanFor(tasks[i].inSpecifier).sideEffects[e]
                          = toString(tasks[i].trail[k].path)
                /\ \E d \in 1..Len(outcome.body) :
                      outcome.body[d].source = toString(tasks[i].trail[k].path)

\* A non-critical failure of a file: Babel cannot parse it, or one of its
\* declarations names a source that cannot be resolved.
NonCriticalFailure(file) ==
    /\ disk[file] # Unread
    /\ ~disk[file].parses \/ ExtractionThrows(disk[file].body)

\* C4: a non-critical failure met by one specifier's chain stops that chain
\* at the current specifier and does not abandon the transformation of the
\* file: a chain does not go on from a specifier that points into a failing
\* file, and, unless the file being rewritten cannot itself be parsed or a
\* loadModule call failed, the loader calls back with the generated code (or
\* with the source, when the file has nothing to rewrite).
C4_FailureStopsOnlyTheChain ==
    /\ \A i \in Tasks : \A k \in 1..Len(tasks[i].trail) :
          NonCriticalFailure(FileOf(tasks[i].trail[k])) => k = Len(tasks[i].trail)
    /\ ( /\ pc = "returned"
         /\ disk[request].parses
         /\ \A p \in Files : factory[p] # "failed" )
       => outcome.status \in {"code", "source"}

(***************************************************************************)
(* Properties of the specifier cache.                                      *)
(***************************************************************************)
\* C8: concurrent requests for the record of one path are coalesced: at most
\* one loader.loadModule call for a path is in flight at any time.
C8_OneLoadInFlight ==
    \A p \in Files : Cardinality({c \in calls : c.request = p}) <= 1

\* C9: within one session the load of a path is performed at most once,
\* however often its record is requested.
C9_LoadedAtMostOnce ==
    \A p \in Files : loads[p] <= 1

\* C10: writes to the cache are append-only: once something is stored under a
\* path, no step stores anything under that path again.  The stored object
\* is named by `obj`; a second cache.set stores the object a later
\* loadModule call produced.
C10_AppendOnly ==
    [][\A p \in Files : cache[p] # Undefined => cache'[p] = cache[p]]_vars

(***************************************************************************)
(* Properties of the rewrite plan and of the generated code.               *)
(***************************************************************************)
\* The result of findExportedSpecifier for `specifier`, computed in one go
\* from the records in the cache: the loop of core.js 465-477 without its
\* awaits.
RECURSIVE ChainFrom(_, _, _)
ChainFrom(specifier, sideEffects, fuel) ==
    LET found == findNextSpecifier(options.doDefaults, options.doSideEffects,
                                   specifier, cache[FileOf(specifier)].value)
    IN IF found.specifier = NoSpecifier \/ fuel = 0
       THEN [outSpecifier |-> specifier, sideEffects |-> sideEffects]
       ELSE ChainFrom(found.specifier,
                      IF found.hasSideEffects THEN Append(sideEffects, specifier)
                      ELSE sideEffects,
                      fuel - 1)

\* The AllTransformsMap that results when the first k specifiers of the file
\* are processed one after the other in source order.
RECURSIVE PlanInSourceOrder(_)
PlanInSourceOrder(k) ==
    IF k = 0 THEN <<>>
    ELSE LET before == PlanInSourceOrder(k - 1)
             specifier == tasks[k].inSpecifier
             importedPath == specifier.path.original
             chain == ChainFrom(specifier, <<>>, MaxDepth)
         IN addTransformData(IF MapHas(before, importedPath) THEN before
                             ELSE MapSet(before, importedPath, <<>>),
                             specifier, chain.outSpecifier, chain.sideEffects)

\* The keys of a Map.
MapKeys(map) == {map[i].key : i \in 1..Len(map)}

\* Two AllTransformsMaps hold the same TransformData under the same original
\* path and identifier, whatever the order in which the entries were added.
SamePlan(p, q) ==
    /\ MapKeys(p) = MapKeys(q)
    /\ \A path \in MapKeys(p) :
          /\ MapKeys(MapGet(p, path)) = MapKeys(MapGet(q, path))
          /\ \A identifier \in MapKeys(MapGet(p, path)) :
                MapGet(MapGet(p, path), identifier) = MapGet(MapGet(q, path), identifier)

\* addTransforms has returned: every specifier's TransformData is in the plan.
PlanComplete ==
    /\ tasks # <<>>
    /\ \A i \in Tasks : tasks[i].pc = "done"

\* C11: the rewrite plan of a file is the one that processing its specifiers
\* in source order yields, in syncMode and in asynchronous mode and whatever
\* the order in which the asynchronous resolutions complete.  The visitor's
\* deduplication reads the plan by key only, so equal plans deduplicate alike.
C11_PlanIsSourceOrdered ==
    PlanComplete => SamePlan(allTransformsMap, PlanInSourceOrder(Len(tasks)))

\* C12: within one file no name is processed twice: for every name, at most
\* one visit of a declaration produces a transform for it, and a visit
\* produces transforms only for names that were not in visitedNames.
C12_TransformedOnce ==
    /\ \A j, k \in 1..Len(context.transformed) :
          j < k => context.transformed[j] # context.transformed[k]
    /\ {context.transformed[k] : k \in 1..Len(context.transformed)}
          \subseteq context.visitedNames

\* C12 happens: a visit has met a name that was already rewritten (in a
\* declaration of the file, or in one that replaceWithMultiple inserted) and
\* left it out, and the code has been generated.
C12_Witness ==
    /\ outcome.status = "code"
    /\ context.skipped # <<>>
    /\ \E k \in 1..Len(context.skipped) :
          \E j \in 1..Len(context.transformed) :
              context.skipped[k] = context.transformed[j]

\* The chain of task i was stopped at its first hop by a non-critical
\* failure: the file its specifier points into cannot be parsed, or names a
\* source that cannot be resolved, so the chain ends where it began.
StoppedByFailure(i) ==
    /\ tasks[i].pc = "done"
    /\ Len(tasks[i].trail) = 1
    /\ NonCriticalFailure(FileOf(tasks[i].inSpecifier))

\* The declaration `dec` of the rewritten file contains the specifier.
Contains(dec, specifier) ==
    /\ isVisited(dec)
    /\ dec.source = specifier.path.original
    /\ isImport(dec) <=> specifier.cls = import
    /\ \E j \in 1..Len(dec.specifiers) :
          getSpecifierName(dec.specifiers[j]) = IdentifierOf(specifier)

\* C13: when the hop from a specifier is stopped by a non-critical failure,
\* the declaration that contains the specifier is in the generated code
\* exactly as it was authored.
C13_StoppedLineAsAuthored ==
    outcome.status = "code" =>
        \A i \in Tasks : StoppedByFailure(i) =>
            \A d \in 1..Len(disk[request].body) :
                Contains(disk[request].body[d], tasks[i].inSpecifier) =>
                    \E g \in 1..Len(outcome.body) :
                        outcome.body[g] = disk[request].body[d]

\* Babel's traversal as one function: the visitor is called for the queued
\* declarations until the queue is empty or a visit throws.
RECURSIVE traverse(_)
traverse(ctx) ==
    IF ctx.queue = <<>> \/ ctx.threw THEN ctx ELSE traverse(visit(ctx))

\* addTransforms over the first k of `specifiers`, one after the other (the
\* order of syncMode), on the records in the cache.
RECURSIVE PlanOf(_, _)
PlanOf(specifiers, k) ==
    IF k = 0 THEN <<>>
    ELSE LET before == PlanOf(specifiers, k - 1)
             specifier == specifiers[k]
             importedPath == specifier.path.original
             chain == ChainFrom(specifier, <<>>, MaxDepth)
         IN addTransformData(IF MapHas(before, importedPath) THEN before
                             ELSE MapSet(before, importedPath, <<>>),
                             specifier, chain.outSpecifier, chain.sideEffects)

\* What the loader calls back with for a module whose text is `body`, the
\* other files and the options being those of the state: transform, with
\* every await answered from the cache.
transform(body) ==
    LET specifiers == getSpecifiers(Module(body), TRUE)
        pathed == pathedSpecifiers(specifiers)
        single == /\ ~options.doDefaults
                  /\ Len(pathed) = 1
                  /\ pathed[1].type = default
        plan == IF single THEN <<>> ELSE PlanOf(pathed, Len(pathed))
        done == traverse(BabelContext(body, plan))
    IN IF specifiers = NullResult THEN Callback("error", <<>>)
       ELSE IF Len(pathed) = 0 THEN Callback("source", body)
       ELSE IF done.threw THEN Callback("error", <<>>)
       ELSE Callback("code", generatedCode(done))

\* C14: rewriting is idempotent: the loader, run on the code it generated
\* with the same options and the same files, calls back with that code
\* unchanged.
C14_Idempotent ==
    outcome.status = "code" =>
        /\ transform(outcome.body).status \in {"code", "source"}
        /\ transform(outcome.body).body = outcome.body

\* The positions, in source order, of the exports of `file` whose exported
\* name is the one `specifier` searches for.
ExportsNamed(specifier) ==
    LET record == cache[FileOf(specifier)].value
    IN IF record = NullResult THEN {}
       ELSE {e \in 1..Len(record.exportSpecifiers) :
                record.exportSpecifiers[e].exportedName = specifier.searchName}

\* The first of them.
FirstExportNamed(specifier) ==
    cache[FileOf(specifier)].value.exportSpecifiers[
        CHOOSE e \in ExportsNamed(specifier) :
            \A other \in ExportsNamed(specifier) : e <= other]

\* C15: when a chain goes on from a specifier through a file, the next
\* specifier is the first export of the searched name in source order, or the
\* import that this first export re-exports; and a chain that ends at a
\* specifier for want of a continuation ends there because the first export
\* of that name leads nowhere.  A later export of the same name is never
\* selected.
C15_FirstExportIsSelected ==
    \A i \in Tasks :
        /\ \A k \in 1..(Len(tasks[i].trail) - 1) :
              LET from == tasks[i].trail[k]
                  to == tasks[i].trail[k + 1]
                  imports == cache[FileOf(from)].value.importSpecifiers
              IN /\ ExportsNamed(from) # {}
                 /\ \/ to = FirstExportNamed(from)
                    \/ /\ FirstExportNamed(from).path = NoPath
                       /\ \E m \in 1..Len(imports) :
                             /\ imports[m] = to
                             /\ imports[m].name = FirstExportNamed(from).name
        /\ tasks[i].pc = "done" /\ Cardinality(ExportsNamed(tasks[i].outSpecifier)) > 1
              /\ tasks[i].outSpecifier.type = named
              /\ (options.doSideEffects
                    \/ ~cache[FileOf(tasks[i].outSpecifier)].value.hasSideEffects)
              => LET first == FirstExportNamed(tasks[i].outSpecifier)
                     imports == cache[FileOf(tasks[i].outSpecifier)].value.importSpecifiers
                 IN /\ first.path = NoPath
                    /\ \A m \in 1..Len(imports) : imports[m].name # first.name

\* C15 happens: a chain has gone on through a file that has two exports of
\* the searched name.
C15_Witness ==
    \E i \in Tasks :
        \E k \in 1..(Len(tasks[i].trail) - 1) :
            /\ Cardinality(ExportsNamed(tasks[i].trail[k])) > 1
            /\ tasks[i].pc = "done"

\* C16: an import declaration of the rewritten file whose source cannot be
\* resolved is in the loader's output as it was authored, source string and
\* specifiers alike.
C16_UnresolvableImportUnchanged ==
    pc = "returned" =>
        \A d \in 1..Len(disk[request].body) :
            LET dec == disk[request].body[d]
            IN isImport(dec) /\ resolve_path(dec.source) = NoPath =>
                  /\ outcome.status # "error"
                  /\ \E g \in 1..Len(outcome.body) : outcome.body[g] = dec

(***************************************************************************)
(* Properties of addTransforms (checked under SpecCore).                   *)
(***************************************************************************)
\* The null starting specifier has been handed to addSpecifiersFrom, and
\* the iteration has had its chance to reject.
NullSpecifierMet ==
    /\ \E i \in Tasks : tasks[i].inSpecifier = NoSpecifier /\ tasks[i].pc # "new"
    /\ options.syncMode \/ \A i \in Tasks : tasks[i].pc # "new"

Undef == [t |-> "undefined"]
Bool(b) == [t |-> "boolean", b |-> b]
Str(s) == [t |-> "string", s |-> s]
Num(n) == [t |-> "number", n |-> n]
Arr(items) == [t |-> "array", items |-> items]
Obj == [t |-> "object"]

\* typeof value, Array.isArray(value), Boolean(value)
typeof(value) == IF value.t = "array" THEN "object" ELSE value.t
isArray(value) == value.t = "array"
Boolean(value) ==
    CASE value.t = "undefined" -> FALSE
      [] value.t = "boolean" -> value.b
      [] value.t = "string" -> value.s # ""
      [] value.t = "number" -> value.n # 0
      [] OTHER -> TRUE

\* path.isAbsolute(value), and pathExists(path.resolve(value)), on the paths
\* the model draws.
isAbsolute(path) == path \in {"/project", "/project/babel.config.js"}
pathExists(path) == path \in {"/project", "/project/babel.config.js"}

\* No error, and new Error(message); `option` is the name the message holds
\* between backticks.
NoError == [option |-> NULL, text |-> NULL]
Error(option, text) == [option |-> option, text |-> text]

\* What a validator leaves in options[key], or the error it throws.
Validated(value) == [error |-> NoError, value |-> value]
Throw(option, text) == [error |-> Error(option, text), value |-> Undef]

\* The sideEffects object: the keys the model gives it, in the order of
\* Object.keys.
SideEffectKeys == <<"enabled", "default", "projectPath", "ignore">>
SideEffectsObject(enabled, def, projectPath, ignore) ==
    [t |-> "object", enabled |-> enabled, default |-> def,
     projectPath |-> projectPath, ignore |-> ignore]
isSideEffectsObject(value) == value.t = "object" /\ "enabled" \in DOMAIN value

defaultSideEffectsOptions ==
    SideEffectsObject(Bool(TRUE), Bool(TRUE), Str("/project"), Arr(<<>>))

\* validate_SideEffects without the test of path.isAbsolute.
validate_SideEffects_AnyPath(key, value) ==
    IF value = Undef THEN Validated(Undef)
    ELSE CASE key \in {"enabled", "default"} -> Validated(Bool(Boolean(value)))
           [] key = "projectPath" ->
                IF typeof(value) # "string"
                THEN Throw("sideEffects.projectPath", "must be a string when provided")
                ELSE Validated(value)
           [] key = "ignore" ->
                LET wrapped == IF isArray(value) THEN value ELSE Arr(<<value>>)
                IN IF \A k \in 1..Len(wrapped.items) : typeof(wrapped.items[k]) = "string"
                   THEN Validated(wrapped)
                   ELSE Throw("sideEffects.ignore", "can only contain strings")

\* validate_SideEffects(key, options), for options[key] = value
validate_SideEffects(key, value) ==
    IF value = Undef THEN Validated(Undef)
    ELSE CASE key \in {"enabled", "default"} -> Validated(Bool(Boolean(value)))
           [] key = "projectPath" ->
                IF typeof(value) # "string"
                THEN Throw("sideEffects.projectPath", "must be a string when provided")
                ELSE IF ~isAbsolute(value.s)
                THEN Throw("sideEffects.projectPath", "must be an absolute path")
                ELSE Validated(value)
           [] key = "ignore" ->
                LET wrapped == IF isArray(value) THEN value ELSE Arr(<<value>>)
                IN IF \A k \in 1..Len(wrapped.items) : typeof(wrapped.items[k]) = "string"
                   THEN Validated(wrapped)
                   ELSE Throw("sideEffects.ignore", "can only contain strings")

\* The first key, in the order of `keys`, whose validator throws; 0 if none.
FirstThrow(keys, results) ==
    IF \E k \in 1..Len(keys) : results[keys[k]].error # NoError
    THEN CHOOSE k \in 1..Len(keys) :
            /\ results[keys[k]].error # NoError
            /\ \A j \in 1..(k - 1) : results[keys[j]].error = NoError
    ELSE 0

\* Object.assign({}, defaults, options), options holding no key whose value
\* is undefined
assign(defaults, results) ==
    [key \in DOMAIN results |->
        IF results[key].value = Undef THEN defaults[key] ELSE results[key].value]

\* validate_PluginOptions(key, options), for options[key] = value
validate_PluginOptions(key, value) ==
    IF value = Undef THEN Validated(Undef)
    ELSE CASE key = "webpackConfig" ->
                IF typeof(value) = "string" THEN Validated(value)
                ELSE Throw("webpackConfig", "can only be a string")
           [] key = "webpackConfigIndex" ->
                IF typeof(value) # "number"
                THEN Throw("webpackConfigIndex", "can only be a number")
                ELSE IF value.n >= 0 THEN Validated(value)
                ELSE Throw("webpackConfigIndex", "must be a number greater than 0")
           [] key = "babelConfig" ->
                IF typeof(value) = "string"
                THEN IF pathExists(value.s) THEN Validated(Obj)
                     ELSE Throw("babelConfig", "does not resolve to an existing file")
                ELSE IF typeof(value) = "object"
                THEN IF ~isArray(value) THEN Validated(value)
                     ELSE Throw("babelConfig", "cannot be an array")
                ELSE Throw("babelConfig", "must be a string or an object")
           [] key = "transformDefaultImports" -> Validated(Bool(Boolean(value)))
           [] key = "sideEffects" ->
                IF typeof(value) = "boolean"
                THEN Validated([defaultSideEffectsOptions EXCEPT !.enabled = value])
                ELSE IF typeof(value) = "object" /\ ~isArray(value)
                THEN LET results == [k \in {"enabled", "default", "projectPath", "ignore"} |->
                                        validate_SideEffects(k, value[k])]
                         thrown == FirstThrow(SideEffectKeys, results)
                     IN IF thrown # 0 THEN results[SideEffectKeys[thrown]]
                        ELSE Validated([t |-> "object"]
                                       @@ assign(defaultSideEffectsOptions, results))
                ELSE Throw("sideEffects", "can only be an object or a boolean value")

PluginOptionKeys ==
    <<"webpackConfig", "webpackConfigIndex", "babelConfig",
      "transformDefaultImports", "sideEffects">>

defaultPluginOptions ==
    [webpackConfig |-> Str("./webpack.config.js"), webpackConfigIndex |-> Num(0),
     babelConfig |-> [t |-> "null"], transformDefaultImports |-> Bool(FALSE),
     sideEffects |-> defaultSideEffectsOptions]

\* validate(options): the error thrown, or the finished options.
validate(opts) ==
    LET results == [k \in DOMAIN opts |-> validate_PluginOptions(k, opts[k])]
        thrown == FirstThrow(PluginOptionKeys, results)
    IN IF thrown # 0
       THEN [error |-> results[PluginOptionKeys[thrown]].error, options |-> opts]
       ELSE [error |-> NoError, options |-> assign(defaultPluginOptions, results)]

\* The option objects a Webpack configuration may hand to the loader.
OptionsMenu ==
    [webpackConfig : {Undef, Str("/project"), Num(42)},
     webpackConfigIndex : {Undef, Num(0), Num(-1), Str("1")},
     babelConfig : {Undef, Obj, Arr(<<Str("x")>>), Str("/project/babel.config.js"),
                    Str("./missing"), Num(42)},
     transformDefaultImports : {Undef, Bool(TRUE), Str("false")},
     sideEffects : {Undef, Bool(FALSE), Str("yes"), Arr(<<Str("x")>>)}
        \cup {SideEffectsObject(e, d, p, i) :
                e \in {Undef, Bool(TRUE), Num(0)},
                d \in {Undef, Bool(FALSE)},
                p \in {Undef, Str("/project"), Str("./tests"), Num(42)},
                i \in {Undef, Str("x"), Arr(<<Str("x")>>), Arr(<<Num(1)>>)}}]

\* The loader is about to run on "f" with the options as configured.
InitOptions ==
    /\ NoClassifier
    /\ NoRequest
    /\ NoFuture
    /\ options \in OptionsMenu
    /\ \E root \in RootMenu :
          disk = [p \in Files |-> IF p = "f" THEN root ELSE Unread]
    /\ factory = [p \in Files |-> "unbuilt"]
    /\ cache = [p \in Files |-> Undefined]
    /\ nextId = 1
    /\ loads = [p \in Files |-> 0]
    /\ calls = {}
    /\ request = NULL
    /\ pc = "idle"
    /\ tasks = <<>>
    /\ allTransformsMap = <<>>
    /\ context = NoContext
    /\ outcome = Pending

\* transformImportsLoader up to the call of transform: validateOptions
\* throws, which fails the build of the module, or hands on the finished
\* options.
validateOptions ==
    /\ UNCHANGED notLoaderVars
    /\ pc = "idle"
    /\ IF validate(options).error # NoError
       THEN /\ pc' = "threw"
            /\ outcome' = [status |-> "error", body |-> <<>>,
                           error |-> validate(options).error]
            /\ UNCHANGED <<options, request>>
       ELSE /\ pc' = "transform"
            /\ options' = validate(options).options
            /\ request' = "f"
            /\ UNCHANGED outcome
    /\ UNCHANGED <<disk, factory, cache, calls, nextId, loads, tasks,
                   allTransformsMap, context>>

NextOptions == validateOptions

SpecOptions == InitOptions /\ [][NextOptions]_vars

(***************************************************************************)
(* Properties of the options' validation (checked under SpecOptions).      *)
(***************************************************************************)
\* Whether `value` is outside what the documentation of the option allows
\* (the typedefs of options.js).  The flags enabled, default and
\* transformDefaultImports are read for their truthiness, and a single
\* string is read as a list of one, so these have no bad value.
BadValue(option, value) ==
    /\ value # Undef
    /\ CASE option = "webpackConfig" -> value.t # "string"
         [] option = "webpackConfigIndex" -> value.t # "number" \/ value.n < 0
         [] option = "babelConfig" ->
               /\ value.t # "object"
               /\ ~(value.t = "string" /\ pathExists(value.s))
         [] option = "sideEffects" -> value.t \notin {"boolean", "object"}
         [] option = "sideEffects.projectPath" ->
               value.t # "string" \/ ~isAbsolute(value.s)
         [] option = "sideEffects.ignore" ->
               \/ value.t \notin {"string", "array"}
               \/ /\ value.t = "array"
                  /\ \E k \in 1..Len(value.items) : value.items[k].t # "string"
         [] OTHER -> FALSE

\* The value the options object gives to the option of that name.
ValueOf(opts, option) ==
    CASE option = "sideEffects.projectPath" ->
            IF isSideEffectsObject(opts.sideEffects)
            THEN opts.sideEffects.projectPath ELSE Undef
      [] option = "sideEffects.ignore" ->
            IF isSideEffectsObject(opts.sideEffects)
            THEN opts.sideEffects.ignore ELSE Undef
      [] OTHER -> opts[option]

\* The options in the order in which the object's keys are gone through.
OptionNames ==
    <<"webpackConfig", "webpackConfigIndex", "babelConfig",
      "transformDefaultImports", "sideEffects", "sideEffects.projectPath",
      "sideEffects.ignore">>

\* The options with a bad value, in that order.
Offending(opts) ==
    SelectSeq(OptionNames, LAMBDA option : BadValue(option, ValueOf(opts, option)))

isSingleDefaultImport(dec) ==
    /\ isImport(dec)
    /\ Len(dec.specifiers) = 1
    /\ dec.specifiers[1].node = "ImportDefaultSpecifier"

\* C19: with transformDefaultImports off, an import declaration whose only
\* specifier is a default import is in the generated code as it was
\* authored, and no transform was produced for its name.
C19_SingleDefaultImportLeftAlone ==
    ~options.doDefaults /\ outcome.status = "code" =>
        \A d \in 1..Len(disk[request].body) :
            isSingleDefaultImport(disk[request].body[d]) =>
                /\ \E g \in 1..Len(outcome.body) :
                      outcome.body[g] = disk[request].body[d]
                /\ \A k \in 1..Len(context.transformed) :
                      context.transformed[k] # disk[request].body[d].specifiers[1].local

\* The paths of the side-effecting hops accumulated by the file's chains.
AccumulatedSideEffects ==
    UNION {{toString(tasks[i].sideEffects[k].path) :
                k \in 1..Len(tasks[i].sideEffects)} : i \in Tasks}

\* The positions of the bare imports of `path` in the generated code.
BareImports(path) ==
    {g \in 1..Len(outcome.body) :
        /\ isImport(outcome.body[g])
        /\ outcome.body[g].specifiers = <<>>
        /\ outcome.body[g].source = path}

\* C20: the generated code holds exactly one bare import of every distinct
\* path among the side-effecting hops that the file's chains accumulated.
C20_OneBareImportPerSideEffect ==
    outcome.status = "code" =>
        \A path \in AccumulatedSideEffects : Cardinality(BareImports(path)) = 1

(***************************************************************************)
(* The side-effect classifier, SideEffects.                                *)
(* A path is the sequence of its segments; an absolute path starts with    *)
(* the segment "/".  A glob is a path with the segments "*" and "**".      *)
(***************************************************************************)
\* No transform is running.
NoLoader ==
    /\ options = <<>>
    /\ disk = [p \in Files |-> Unread]
    /\ factory = [p \in Files |-> "unbuilt"]
    /\ cache = [p \in Files |-> Undefined]
    /\ nextId = 1
    /\ loads = [p \in Files |-> 0]
    /\ calls = {}
    /\ request = NULL
    /\ pc = "idle"
    /\ tasks = <<>>
    /\ allTransformsMap = <<>>
    /\ context = NoContext
    /\ outcome = Pending

\* loader.rootContext
rootContext == <<"/", "proj">>

\* The files on disk, inside the project and outside it.
ModuleFiles ==
    { <<"/", "proj", "a.js">>,
      <<"/", "proj", "src", "a.js">>,
      <<"/", "proj", "vendor", "v.js">>,
      <<"/", "proj", "node_modules", "pkg", "index.js">>,
      <<"/", "proj", "node_modules", "pkg", "lib", "x.js">>,
      <<"/", "lib", "z.js">> }

Directories ==
    UNION {{SubSeq(p, 1, n) : n \in 1..(Len(p) - 1)} : p \in ModuleFiles}

ospath_isAbsolute(path) == path # <<>> /\ Head(path) = "/"

startsWithDot(path) == path # <<>> /\ Head(path) \in {".", ".."}

\* path.normalize, for paths without ".." segments: "." segments and
\* repeated separators go.
ospath_normalize(path) ==
    LET Keep(i) == path[i] # "." /\ (path[i] # "/" \/ i = 1)
        RECURSIVE From(_)
        From(i) == IF i > Len(path) THEN <<>>
                   ELSE IF Keep(i) THEN <<path[i]>> \o From(i + 1)
                   ELSE From(i + 1)
    IN From(1)

ospath_join(a, b) == ospath_normalize(a \o b)

ospath_resolve(from, to) ==
    IF ospath_isAbsolute(to) THEN ospath_normalize(to)
    ELSE ospath_normalize(from \o to)

ospath_relative(from, to) ==
    LET Common == {n \in 0..Len(from) :
                      n <= Len(to) /\ SubSeq(from, 1, n) = SubSeq(to, 1, n)}
        c == CHOOSE n \in Common : \A m \in Common : m <= n
    IN [i \in 1..(Len(from) - c) |-> ".."] \o SubSeq(to, c + 1, Len(to))

ospath_dirname(path) ==
    IF Len(path) <= 1 THEN path ELSE SubSeq(path, 1, Len(path) - 1)

\* utils.appendCurPath, which SideEffects calls fixPath
appendCurPath(path) ==
    IF ospath_isAbsolute(path) \/ startsWithDot(path) THEN path
    ELSE <<".">> \o path

\* utils.isInPath: throws unless both paths are absolute
isInPath(path, target) ==
    IF ~ospath_isAbsolute(path) \/ ~ospath_isAbsolute(target)
    THEN [thrown |-> "Error"]
    ELSE LET relPath == ospath_relative(target, path)
         IN [value |-> ~(relPath # <<>> /\ Head(relPath) = "..")]

\* utils.checkPath: fs.stat, with every error turned into pathTypes.nil
checkPath(path) ==
    IF path \in ModuleFiles THEN "file"
    ELSE IF path \in Directories THEN "dir"
    ELSE "nil"

\* is-valid-path: a string with glob characters is not a path
isPath(str) == \A i \in 1..Len(str) : str[i] \notin {"*", "**"}

\* micromatch on one pattern: "**" matches any number of segments, "*" one.
RECURSIVE globMatch(_, _)
globMatch(str, glob) ==
    IF glob = <<>> THEN str = <<>>
    ELSE IF Head(glob) = "**"
    THEN globMatch(str, Tail(glob)) \/ (str # <<>> /\ globMatch(Tail(str), glob))
    ELSE /\ str # <<>>
         /\ Head(glob) = "*" \/ Head(glob) = Head(str)
         /\ globMatch(Tail(str), Tail(glob))

\* micromatch ignores a leading "./" of the string and of the pattern.
stripPrefix(path) == IF path # <<>> /\ Head(path) = "." THEN Tail(path) ELSE path

\* isMatch = mm.isMatch(str, patterns, { matchBase: true }): some pattern
\* matches; a pattern without a slash is matched against the basename.
isMatch(str, patterns) ==
    \E i \in 1..Len(patterns) :
        LET glob == stripPrefix(patterns[i])
            bare == stripPrefix(str)
        IN IF Len(patterns[i]) = 1 /\ bare # <<>>
           THEN globMatch(<<bare[Len(bare)]>>, glob)
           ELSE globMatch(bare, glob)

\* Webpack's resolver, loader.resolve(context, request, callback): an
\* absolute or relative request names a file, with or without ".js"; a bare
\* request names a package of the node_modules of the context or of a
\* directory above it, and resolves to its index.js.
withExtension(path) ==
    IF path = <<>> THEN path
    ELSE [i \in 1..Len(path) |->
            IF i = Len(path) /\ path[i] = "a" THEN "a.js"
            ELSE IF i = Len(path) /\ path[i] = "v" THEN "v.js"
            ELSE path[i]]

loader_resolve(ctx, req) ==
    LET asFile == withExtension(ospath_resolve(ctx, req))
        above == {SubSeq(ctx, 1, n) : n \in 1..Len(ctx)}
        mains == {ospath_normalize(dir \o <<"node_modules">> \o req \o <<"index.js">>) :
                     dir \in above}
    IN IF ospath_isAbsolute(req) \/ startsWithDot(req)
       THEN IF asFile \in ModuleFiles THEN [err |-> FALSE, path |-> asFile]
            ELSE [err |-> TRUE]
       ELSE IF mains \cap ModuleFiles # {}
            THEN [err |-> FALSE, path |-> CHOOSE m \in mains \cap ModuleFiles : TRUE]
            ELSE [err |-> TRUE]

\* PathResolver#resolve(request, issuer) -> resolveImpl -> resolvePathFn:
\* the request is resolved in the directory of the issuer; the promise is
\* rejected when Webpack reports an error.
PathResolver_resolve(req, issuer) ==
    LET found == loader_resolve(ospath_dirname(issuer), req)
    IN IF found.err THEN [rejected |-> TRUE]
       ELSE [rejected |-> FALSE, resolvedPath |-> found.path]

\* What testPackage and testModule resolve to for an entry they do not take.
NoIgnoreResult == [pattern |-> NULL]

\* An entry of Promise.all's array that is not settled yet.
Unsettled == [pattern |-> "unsettled"]

\* init: testPackage(str)
testPackage(str) ==
    LET relPath == ospath_join(<<".", "node_modules">>, str)
        modulePath == ospath_resolve(rootContext, relPath)
        packagesPath == ospath_resolve(rootContext, <<".", "node_modules">>)
        inPath == isInPath(modulePath, packagesPath)
    IN IF "thrown" \in DOMAIN inPath THEN inPath
       ELSE IF ~inPath.value THEN NoIgnoreResult
       ELSE IF checkPath(modulePath) # "dir" THEN NoIgnoreResult
       ELSE [pattern |-> TRUE,
             val |-> appendCurPath(ospath_join(relPath, <<"**", "*">>))]

\* init: testModule with the rejection passed on instead.
testModule_Rethrows(str) ==
    LET resolved == PathResolver_resolve(str, rootContext)
    IN IF resolved.rejected THEN [thrown |-> "Error"]
       ELSE [pattern |-> FALSE, val |-> resolved.resolvedPath]

\* init: testModule(str); the rejection handler turns a resolution error
\* into null.
testModule(str) ==
    LET resolved == PathResolver_resolve(str, rootContext)
    IN IF resolved.rejected THEN NoIgnoreResult
       ELSE [pattern |-> FALSE, val |-> resolved.resolvedPath]

\* init: mapFn(str)
mapFn(str) ==
    IF isPath(str)
    THEN LET asPackage == testPackage(str)
         IN IF asPackage # NoIgnoreResult THEN asPackage
            ELSE IF testModule(str) # NoIgnoreResult THEN testModule(str)
            ELSE [pattern |-> TRUE, val |-> str]
    ELSE [pattern |-> TRUE, val |-> str]

\* The strings an ignore list is made of.
IgnoreMenu ==
    { <<"pkg">>,                            \* a package of the project
      <<"ghost">>,                          \* a package that is not installed
      <<".", "vendor", "**", "*">>,         \* a glob
      <<"/", "proj", "src", "a.js">>,       \* a module, by its absolute path
      <<".", "src", "a">> }                 \* a module, relative to the project

\* options.ignoreSideEffects
IgnoreSideEffectsMenu ==
    {Bool(TRUE), Bool(FALSE)}
        \cup {Arr(<<e>>) : e \in IgnoreMenu}
        \cup {Arr(<<e1, e2>>) : e1 \in IgnoreMenu, e2 \in IgnoreMenu}

\* new SideEffects(rootContext, options)
SideEffects_constructor(ignoreSideEffects) ==
    [didInit |-> FALSE,
     enabled |-> ignoreSideEffects # Bool(TRUE),
     ignoreList |-> IF isArray(ignoreSideEffects) THEN ignoreSideEffects.items
                    ELSE <<>>,
     ignoredModules |-> <<>>,
     ignoredPatterns |-> <<>>]

\* SideEffects#isIgnored(modulePath)
isIgnored(this, modulePath) ==
    IF \E i \in 1..Len(this.ignoredModules) : this.ignoredModules[i] = modulePath
    THEN TRUE
    ELSE LET projectRelative ==
                 appendCurPath(ospath_relative(rootContext, modulePath))
         IN isMatch(projectRelative, this.ignoredPatterns)

\* SideEffects#assertInit()
assertInit(this) ==
    IF this.didInit THEN NoError
    ELSE IF ~this.enabled THEN NoError
    ELSE Error(NULL, "this SideEffect instance was not initialized completely")

\* test without the ignore lists
test_ReportOnly(this, modulePath, hasSideEffects) ==
    IF assertInit(this) # NoError THEN [thrown |-> assertInit(this).text]
    ELSE IF ~this.enabled THEN [value |-> FALSE]
    ELSE [value |-> hasSideEffects]

\* SideEffects#test(modulePath, hasSideEffects)
test(this, modulePath, hasSideEffects) ==
    IF assertInit(this) # NoError THEN [thrown |-> assertInit(this).text]
    ELSE IF ~this.enabled THEN [value |-> FALSE]
    ELSE IF isIgnored(this, modulePath) THEN [value |-> FALSE]
    ELSE [value |-> hasSideEffects]

\* SideEffects.create(rootContext, options, pathResolver, debugRoot) has
\* made the instance and called init, which has started mapFn on every
\* entry of the ignore list.
InitSideEffects ==
    /\ NoLoader
    /\ \E ignoreSideEffects \in IgnoreSideEffectsMenu :
        /\ classifier = SideEffects_constructor(ignoreSideEffects)
        /\ ignoreResults = [k \in 1..Len(classifier.ignoreList) |-> Unsettled]
    /\ created = "pending"
    /\ tested = [result |-> "none"]
    /\ NoRequest
    /\ NoFuture

\* One mapFn promise of init settles.
awaitMapFn(k) ==
    /\ created = "pending"
    /\ k \in 1..Len(ignoreResults)
    /\ ignoreResults[k] = Unsettled
    /\ ignoreResults' = [d \in 1..Len(ignoreResults) |->
                            IF d = k THEN mapFn(classifier.ignoreList[k])
                            ELSE ignoreResults[d]]
    /\ UNCHANGED <<classifier, created, tested>>
    /\ UNCHANGED notClassifierVars

\* The values of the results that are patterns (or are modules), in order.
RECURSIVE valsOf(_, _)
valsOf(results, pattern) ==
    IF results = <<>> THEN <<>>
    ELSE IF Head(results).pattern = pattern
    THEN <<Head(results).val>> \o valsOf(Tail(results), pattern)
    ELSE valsOf(Tail(results), pattern)

\* SideEffects#init after Promise.all: the lists are filled and didInit is
\* set, or the first error is thrown again.
init ==
    /\ created = "pending"
    /\ \A k \in 1..Len(ignoreResults) : ignoreResults[k] # Unsettled
    /\ IF \E k \in 1..Len(ignoreResults) : "thrown" \in DOMAIN ignoreResults[k]
       THEN /\ created' = "rejected"
            /\ UNCHANGED classifier
       ELSE /\ created' = "fulfilled"
            /\ classifier' =
                 [didInit |-> TRUE,
                  enabled |-> classifier.enabled,
                  ignoreList |-> classifier.ignoreList,
                  ignoredModules |-> valsOf(ignoreResults, FALSE),
                  ignoredPatterns |-> valsOf(ignoreResults, TRUE)]
    /\ UNCHANGED <<ignoreResults, tested>>
    /\ UNCHANGED notClassifierVars

\* filterSideEffects of the SpecResolver: with the initialised instance,
\* sideEffects.test(resourcePath, sideEffectsReported).
filterSideEffects ==
    /\ created = "fulfilled"
    /\ \E resourcePath \in ModuleFiles, sideEffectsReported \in BOOLEAN :
          tested' = [modulePath |-> resourcePath,
                     hasSideEffects |-> sideEffectsReported,
                     result |-> test(classifier, resourcePath, sideEffectsReported)]
    /\ UNCHANGED <<classifier, ignoreResults, created>>
    /\ UNCHANGED notClassifierVars

NextSideEffects ==
    \/ \E k \in 1..Len(ignoreResults) : awaitMapFn(k)
    \/ init
    \/ filterSideEffects

SpecSideEffects == InitSideEffects /\ [][NextSideEffects]_vars

\* What SideEffects#test last returned, when it has been called.
Tested == "modulePath" \in DOMAIN tested

\* C21: a file that is in the list of ignored modules, or whose path from
\* the project root matches an ignored pattern (a glob of the ignore list,
\* or the node_modules subtree of an ignored package), is classified as
\* free of side-effects whatever Webpack reported for it.
C21_IgnoredIsSideEffectFree ==
    Tested =>
        LET path == tested.modulePath
            fromRoot == appendCurPath(ospath_relative(rootContext, path))
            listed == \E i \in 1..Len(classifier.ignoredModules) :
                          classifier.ignoredModules[i] = path
            matched == \E i \in 1..Len(classifier.ignoredPatterns) :
                          isMatch(fromRoot, <<classifier.ignoredPatterns[i]>>)
        IN listed \/ matched => tested.result = [value |-> FALSE]

\* A file inside an ignored package was reported as side-effecting and was
\* classified as free of side-effects.
C21_Witness ==
    /\ Tested
    /\ tested.hasSideEffects
    /\ tested.result = [value |-> FALSE]
    /\ tested.modulePath = <<"/", "proj", "node_modules", "pkg", "lib", "x.js">>
    /\ classifier.ignoredPatterns = <<<<".", "node_modules", "pkg", "**", "*">>>>
    /\ classifier.ignoredModules = <<<<"/", "proj", "src", "a.js">>>>

\* The entry was tried as a module and Webpack could not resolve it.
ResolutionError(str) ==
    /\ isPath(str)
    /\ testPackage(str) = NoIgnoreResult
    /\ PathResolver_resolve(str, rootContext).rejected

\* Some entry of the ignore list met a resolution error, and its mapFn has
\* settled.
ResolutionErrorMet ==
    \E k \in 1..Len(ignoreResults) :
        ignoreResults[k] # Unsettled /\ ResolutionError(classifier.ignoreList[k])

\* C23, as stated: once an entry of the ignore list has met a resolution
\* error, the initialisation does not complete; the promise of create is
\* rejected.
C23_ResolutionErrorFailsInit ==
    ResolutionErrorMet /\ created # "pending" => created = "rejected"

\* C23, amended: a resolution error met while expanding an entry of the
\* ignore list is swallowed; the entry is kept as a pattern, as written,
\* and the initialisation completes.
C23_ResolutionErrorKeepsPattern ==
    \A k \in 1..Len(ignoreResults) :
        ignoreResults[k] # Unsettled /\ ResolutionError(classifier.ignoreList[k])
            => /\ ignoreResults[k] = [pattern |-> TRUE, val |-> classifier.ignoreList[k]]
               /\ created # "pending" =>
                    /\ created = "fulfilled"
                    /\ classifier.didInit
                    /\ \E i \in 1..Len(classifier.ignoredPatterns) :
                          classifier.ignoredPatterns[i] = classifier.ignoreList[k]

\* An ignore list whose only entry cannot be resolved has been expanded.
C23_Witness ==
    /\ classifier.ignoreList = <<<<"ghost">>>>
    /\ ResolutionErrorMet
    /\ created = "fulfilled"
    /\ classifier.ignoredPatterns = <<<<"ghost">>>>
    /\ classifier.ignoredModules = <<>>

(***************************************************************************)
(* The classifier of the Babel plugin (sideEffects.js), which reads the    *)
(* sideEffects flag of the nearest package.json itself.                    *)
(***************************************************************************)
\* The values a package.json may hold under "sideEffects".  JsNull stands
\* for null and for a missing package.json alike.
JsNull == [t |-> "null"]

FlagMenu ==
    { Undef, JsNull, Bool(TRUE), Bool(FALSE),
      Str(<<".", "lib", "*">>), Str(<<".", "src", "*">>),
      Arr(<<Str(<<".", "lib", "*">>), Str(<<".", "index.js">>)>>),
      Arr(<<>>),
      Arr(<<Num(42)>>),
      Num(42),
      Obj }

\* The directory of the nearest package.json above a file.
PackageDir(filePath) ==
    IF Len(filePath) >= 4 /\ SubSeq(filePath, 1, 4) = <<"/", "proj", "node_modules", "pkg">>
    THEN <<"/", "proj", "node_modules", "pkg">>
    ELSE <<"/", "proj">>

\* hasSideEffectsImpl(modulePath, flagValue, defaultValue): the switch has
\* no default case, so a flag of any other type leaves it and the function
\* returns undefined; some() of a value that is not an array throws, which
\* the catch turns into the default.
RECURSIVE hasSideEffectsImpl(_, _, _)
hasSideEffectsImpl(modulePath, flagValue, defaultValue) ==
    CASE typeof(flagValue) = "undefined" -> Bool(defaultValue)
      [] typeof(flagValue) = "boolean" -> flagValue
      [] typeof(flagValue) = "string" -> Bool(isMatch(modulePath, <<flagValue.s>>))
      [] typeof(flagValue) = "object" ->
            IF isArray(flagValue)
            THEN Bool(\E i \in 1..Len(flagValue.items) :
                        Boolean(hasSideEffectsImpl(modulePath, flagValue.items[i],
                                                   defaultValue)))
            ELSE Bool(defaultValue)
      [] OTHER -> Undef

\* SideEffects#getPackageData(filePath), reading `flagValue` from disk
getPackageData(filePath, flagValue) ==
    IF flagValue \notin {Undef, JsNull}
    THEN [dir |-> PackageDir(filePath), flagValue |-> flagValue]
    ELSE JsNull

\* SideEffects#hasSideEffects(filePath, packageData)
hasSideEffects(this, filePath, packageData) ==
    IF packageData = JsNull THEN Bool(this.default)
    ELSE hasSideEffectsImpl(
            appendCurPath(ospath_relative(packageData.dir, filePath)),
            packageData.flagValue, this.default)

\* The files the plugin asks about; the empty path stands for a source that
\* could not be resolved.
PluginFiles ==
    { <<>>,
      <<"/", "proj", "src", "a.js">>,
      <<"/", "proj", "node_modules", "pkg", "index.js">>,
      <<"/", "proj", "node_modules", "pkg", "lib", "x.js">> }

PackageDirs == {PackageDir(f) : f \in PluginFiles \ {<<>>}}

\* The plugin's instance, new SideEffects({ sideEffects: options }, ...),
\* with an empty ignore list.  The cache holds the package data per
\* directory of a tested file.
InitPlugin ==
    /\ NoLoader
    /\ \E enabled \in BOOLEAN, byDefault \in BOOLEAN :
          classifier = [didInit |-> TRUE, enabled |-> enabled, default |-> byDefault,
                        ignoredModules |-> <<>>, ignoredPatterns |-> <<>>,
                        cache |-> [d \in {} |-> JsNull]]
    /\ ignoreResults = <<>>
    /\ created = "fulfilled"
    /\ tested = [result |-> "none"]
    /\ NoRequest
    /\ NoFuture

\* SideEffects#test(filePath) of the plugin.  `onDisk` is the flag of the
\* package.json, read when the directory of the file is not in the cache.
SideEffects_test ==
    \E filePath \in PluginFiles, onDisk \in FlagMenu :
        LET cacheKey == ospath_dirname(filePath)
            cached == cacheKey \in DOMAIN classifier.cache
            packageData == IF cached THEN classifier.cache[cacheKey]
                           ELSE getPackageData(filePath, onDisk)
        IN /\ created = "fulfilled"
           /\ Cardinality(DOMAIN classifier.cache) < 2 \/ cached
           /\ IF ~classifier.enabled \/ filePath = <<>>
                   \/ isIgnored(classifier, filePath)
              THEN /\ tested' = [modulePath |-> filePath, flagValue |-> JsNull,
                                 result |-> [value |-> Bool(FALSE)]]
                   /\ UNCHANGED classifier
              ELSE /\ tested' = [modulePath |-> filePath,
                                 flagValue |-> IF packageData = JsNull THEN JsNull
                                               ELSE packageData.flagValue,
                                 result |-> [value |->
                                    hasSideEffects(classifier, filePath, packageData)]]
                   /\ classifier' =
                        [classifier EXCEPT !.cache =
                            [d \in DOMAIN classifier.cache \cup {cacheKey} |->
                                IF d = cacheKey THEN packageData
                                ELSE classifier.cache[d]]]
           /\ UNCHANGED <<ignoreResults, created>>
           /\ UNCHANGED notClassifierVars

NextPlugin == SideEffects_test

SpecPlugin == InitPlugin /\ [][NextPlugin]_vars

\* The declared value is none of undefined, a boolean, a string and an
\* array of strings.
UnexpectedShape(flagValue) ==
    ~ \/ flagValue.t \in {"undefined", "boolean", "string"}
      \/ /\ isArray(flagValue)
         /\ \A i \in 1..Len(flagValue.items) : flagValue.items[i].t = "string"

\* C22: the classification of a file does not throw, and when the declared
\* sideEffects value of its package has an unexpected shape the result is
\* the configured default.
C22_UnexpectedShapeGivesDefault ==
    Tested =>
        /\ "thrown" \notin DOMAIN tested.result
        /\ classifier.enabled /\ tested.modulePath # <<>>
              /\ UnexpectedShape(tested.flagValue)
            => tested.result = [value |-> Bool(classifier.default)]

(***************************************************************************)
(* Webpack requests.  A request is a string, here the sequence of its      *)
(* tokens: "!" ends a loader, "?" starts the query, "./a" is a relative    *)
(* path that names a file and "x" is any other text.                       *)
(***************************************************************************)
RequestLen == 5

Alphabet == {"x", "!", "?", "./a"}

RECURSIVE Strings(_)
Strings(n) ==
    IF n = 0 THEN {<<>>}
    ELSE LET shorter == Strings(n - 1)
         IN shorter \cup {Append(s, c) : s \in {t \in shorter : Len(t) = n - 1},
                                         c \in Alphabet}

Requests == Strings(RequestLen) \ {<<>>}

\* The positions of a token in a string.
Positions(str, token) == {i \in 1..Len(str) : str[i] = token}
Last(S) == CHOOSE i \in S : \A j \in S : j <= i
First(S) == CHOOSE i \in S : \A j \in S : i <= j

\* utils.decomposePath, by rePath = /^(.*!)?(.*?)(\?.*)?$/: the loaders run
\* to the last "!", the query starts at the first "?" behind them and the
\* path lies between.  `loaders || null` and `query || null`: the empty
\* string and null are both <<>> here.
decomposePath(originalPath) ==
    LET bangs == Positions(originalPath, "!")
        bang == IF bangs = {} THEN 0 ELSE Last(bangs)
        rest == SubSeq(originalPath, bang + 1, Len(originalPath))
        marks == Positions(rest, "?")
        mark == IF marks = {} THEN Len(rest) + 1 ELSE First(marks)
    IN [path |-> SubSeq(rest, 1, mark - 1),
        loaders |-> SubSeq(originalPath, 1, bang),
        query |-> SubSeq(rest, mark, Len(rest))]

\* [loaders, path, query].filter(Boolean).join('')
RECURSIVE recompose(_)
recompose(parts) ==
    IF parts = <<>> THEN <<>>
    ELSE IF Head(parts) = <<>> THEN recompose(Tail(parts))
    ELSE Head(parts) \o recompose(Tail(parts))

\* A path of segments written as a string.
RECURSIVE render(_)
render(path) ==
    IF Len(path) <= 1 THEN path
    ELSE IF Head(path) = "/" THEN <<"/">> \o render(Tail(path))
    ELSE <<Head(path), "/">> \o render(Tail(path))

\* The path of a request, read as segments.
segmentsOf(path) ==
    IF path = <<>> THEN <<>>
    ELSE IF path = <<"./a">> THEN <<".", "a">>
    ELSE IF Head(path) = "./a" THEN <<".", "ax">>
    ELSE <<"x">>

\* new ResolvedPath(originalPath, resolvedPath, loaders, query)
ResolvedPath_new(originalPath, resolvedPath, loaders, query) ==
    [originalPath |-> originalPath,
     resolvedPath |-> resolvedPath,
     context |-> ospath_dirname(resolvedPath),
     loaders |-> loaders,
     query |-> query,
     original |-> recompose(<<loaders, originalPath, query>>),
     resolved |-> recompose(<<loaders, render(resolvedPath), query>>)]

\* ResolvedPath#toString without the query
ResolvedPath_toString_NoQuery(this, ctx) ==
    IF ctx = <<>> THEN this.resolved
    ELSE recompose(<<this.loaders,
                     render(appendCurPath(ospath_relative(ctx, this.resolvedPath)))>>)

\* ResolvedPath#toString(context)
ResolvedPath_toString(this, ctx) ==
    IF ctx = <<>> THEN this.resolved
    ELSE recompose(<<this.loaders,
                     render(appendCurPath(ospath_relative(ctx, this.resolvedPath))),
                     this.query>>)

\* PathResolver#resolve(request, issuer) for a request with loaders and a
\* query; the issuer has neither.
PathResolver_resolveRequest(req, issuer) ==
    LET parts == decomposePath(req)
        found == PathResolver_resolve(segmentsOf(parts.path), issuer)
    IN IF found.rejected THEN [state |-> "rejected"]
       ELSE [state |-> "resolved",
             path |-> ResolvedPath_new(parts.path, found.resolvedPath,
                                       parts.loaders, parts.query)]

\* A declaration of `issuer` names `request`; the module being rewritten
\* lies in `context` (<<>>: toString is called without a context).
InitRequest ==
    /\ NoLoader
    /\ NoClassifier
    /\ NoFuture
    /\ webpackRequest \in
          [request : Requests,
           issuer : {<<"/", "proj", "f.js">>, <<"/", "proj", "src", "g.js">>},
           context : {<<>>, <<"/", "proj">>, <<"/", "proj", "src">>}]
    /\ resolvedRequest = [state |-> "none"]
    /\ emittedPath = <<>>

\* The extractor resolves the source of the declaration.
resolveRequest ==
    /\ resolvedRequest.state = "none"
    /\ webpackRequest.request # <<>>
    /\ resolvedRequest' =
          PathResolver_resolveRequest(webpackRequest.request, webpackRequest.issuer)
    /\ UNCHANGED <<webpackRequest, emittedPath>>
    /\ UNCHANGED notRequestVars

\* The visitor writes the source of the new declaration.
emitPath ==
    /\ resolvedRequest.state = "resolved"
    /\ emittedPath = <<>>
    /\ emittedPath' = ResolvedPath_toString(resolvedRequest.path, webpackRequest.context)
    /\ UNCHANGED <<webpackRequest, resolvedRequest>>
    /\ UNCHANGED notRequestVars

NextRequest == resolveRequest \/ emitPath

SpecRequest == InitRequest /\ [][NextRequest]_vars

\* The loader prefix of a request: its longest prefix that ends with "!".
LoaderPrefix(req) ==
    CHOOSE l \in {SubSeq(req, 1, n) : n \in 0..Len(req)} :
        /\ l = <<>> \/ l[Len(l)] = "!"
        /\ \A i \in (Len(l) + 1)..Len(req) : req[i] # "!"

\* The query suffix of a request: what follows the loader prefix from the
\* first "?" on.
QuerySuffix(req) ==
    CHOOSE q \in {SubSeq(req, n, Len(req)) : n \in (Len(LoaderPrefix(req)) + 1)..(Len(req) + 1)} :
        /\ q = <<>> \/ q[1] = "?"
        /\ \A i \in (Len(LoaderPrefix(req)) + 1)..(Len(req) - Len(q)) : req[i] # "?"

\* C24: the path written for a resolved request is its loader prefix, the
\* resolved file relative to the directory of the rewritten module, and its
\* query suffix, each as in the request; and the parts a request is
\* decomposed into recompose to the request.
C24_LoadersAndQueryArePreserved ==
    LET req == webpackRequest.request
        parts == decomposePath(req)
    IN /\ recompose(<<parts.loaders, parts.path, parts.query>>) = req
       /\ resolvedRequest.state = "resolved" =>
            /\ resolvedRequest.path.original = req
            /\ resolvedRequest.path.loaders = LoaderPrefix(req)
            /\ resolvedRequest.path.query = QuerySuffix(req)
       /\ emittedPath # <<>> /\ webpackRequest.context # <<>> =>
            emittedPath =
                LoaderPrefix(req)
                \o render(appendCurPath(ospath_relative(
                              webpackRequest.context,
                              resolvedRequest.path.resolvedPath)))
                \o QuerySuffix(req)

\* A request with a loader and a query has been resolved and written.
C24_Witness ==
    /\ webpackRequest.request = <<"x", "!", "./a", "?", "x">>
    /\ webpackRequest.context = <<"/", "proj">>
    /\ emittedPath = <<"x", "!", ".", "/", "src", "/", "a.js", "?", "x">>

\* How many import specifiers of `body` bind the local name `name`.
BoundBy(body, name) ==
    Cardinality({k \in 1..Len(ImportEntries(body)) :
                    ImportEntries(body)[k].local = name})

\* How many export-from specifiers of `body` export the name `name`.
ExportedFromBy(body, name) ==
    Cardinality({k \in 1..Len(ExportEntries(body)) :
                    /\ ExportEntries(body)[k].source # NULL
                    /\ ExportEntries(body)[k].exported = name})

\* C25: every local name an import specifier of the rewritten file binds is
\* bound by exactly one import specifier of the generated code, and every
\* name one of its export-from specifiers exports is exported by exactly one
\* export-from specifier of the generated code.
C25_BindingsKeptOnce ==
    outcome.status = "code" =>
        /\ \A a \in 1..Len(ImportEntries(disk[request].body)) :
              BoundBy(outcome.body, ImportEntries(disk[request].body)[a].local) = 1
        /\ \A e \in 1..Len(ExportEntries(disk[request].body)) :
              ExportEntries(disk[request].body)[e].source # NULL =>
                 ExportedFromBy(outcome.body,
                                ExportEntries(disk[request].body)[e].exported) = 1

\* The record of the file a specifier points into says it has side effects.
IntoSideEffects(specifier) ==
    /\ cache[FileOf(specifier)].value # NullResult
    /\ cache[FileOf(specifier)].value.hasSideEffects

\* The specifiers of a chain, in chain order, that point into a file with
\* side effects.
RECURSIVE SideEffectingOf(_)
SideEffectingOf(chain) ==
    IF chain = <<>> THEN <<>>
    ELSE IF IntoSideEffects(Head(chain))
    THEN <<Head(chain)>> \o SideEffectingOf(Tail(chain))
    ELSE SideEffectingOf(Tail(chain))

\* C26, as stated: with transformSideEffects on, every specifier of a chain
\* that is followed (it is no namespace specifier and no default specifier
\* with transformDefaultImports off) and whose file's record has been loaded
\* with hasSideEffects = true is among the side effects of the chain.
C26_EverySideEffectingHopRecorded ==
    options.doSideEffects =>
        \A i \in Tasks : \A k \in 1..Len(tasks[i].trail) :
            /\ k < Len(tasks[i].trail) \/ tasks[i].pc = "done"
            /\ tasks[i].trail[k].type # namespace
            /\ options.doDefaults \/ tasks[i].trail[k].type # default
            /\ IntoSideEffects(tasks[i].trail[k])
            => \E e \in 1..Len(tasks[i].sideEffects) :
                  tasks[i].sideEffects[e] = tasks[i].trail[k]

\* C26, amended: with transformSideEffects on, the side effects of a chain
\* are the specifiers the chain has gone on from whose file's record has
\* hasSideEffects = true, in chain order; the specifier the chain stands at
\* or has ended at is not among them on its own account.
C26_PassedSideEffectingHopsRecorded ==
    options.doSideEffects =>
        \A i \in Tasks :
            Len(tasks[i].trail) >= 1 =>
                tasks[i].sideEffects =
                    SideEffectingOf(SubSeq(tasks[i].trail, 1, Len(tasks[i].trail) - 1))

\* A chain has gone on from a specifier that points into a side-effecting
\* file and has ended at a named specifier that points into one.
C26_Witness ==
    /\ options.doSideEffects
    /\ \E i \in Tasks :
        /\ tasks[i].pc = "done"
        /\ Len(tasks[i].trail) >= 2
        /\ Len(tasks[i].sideEffects) >= 1
        /\ IntoSideEffects(tasks[i].outSpecifier)
        /\ tasks[i].outSpecifier.type = named
        /\ \A e \in 1..Len(tasks[i].sideEffects) :
              tasks[i].sideEffects[e] # tasks[i].outSpecifier

\* The first export of the file `specifier` points into that has the name
\* the specifier searches for (the record of the file is loaded and holds
\* such an export).
HasMatchedExport(specifier) ==
    /\ cache[FileOf(specifier)].value # NullResult
    /\ \E e \in 1..Len(cache[FileOf(specifier)].value.exportSpecifiers) :
          cache[FileOf(specifier)].value.exportSpecifiers[e].exportedName
              = specifier.searchName

MatchedExport(specifier) ==
    LET exports == cache[FileOf(specifier)].value.exportSpecifiers
    IN exports[FindIndex(exports, LAMBDA exp : exp.exportedName = specifier.searchName)]

\* The specifier is followed into its file, and the export matched there has
\* no source path and re-exports no import of the file: it exports a binding
\* the file declares.
LocalDeclaration(specifier) ==
    /\ specifier.type # namespace
    /\ options.doDefaults \/ specifier.type # default
    /\ HasMatchedExport(specifier)
    /\ options.doSideEffects \/ ~cache[FileOf(specifier)].value.hasSideEffects
    /\ MatchedExport(specifier).path = NoPath
    /\ \A m \in 1..Len(cache[FileOf(specifier)].value.importSpecifiers) :
          cache[FileOf(specifier)].value.importSpecifiers[m].name
              # MatchedExport(specifier).name

\* C27, as stated: a chain that ends at a local declaration has the matched
\* export specifier itself as its terminal.
C27_TerminalIsLocalExport ==
    \A i \in Tasks :
        tasks[i].pc = "done" /\ LocalDeclaration(tasks[i].outSpecifier)
            => tasks[i].outSpecifier = MatchedExport(tasks[i].outSpecifier)

\* C27, amended: a chain never goes on from a specifier whose matched export
\* is a local declaration; it ends there, and its terminal is the specifier
\* that points into the declaring file: it has a source path, which the
\* matched export has not, and it searches for the name of that export.
C27_LocalDeclarationEndsChain ==
    \A i \in Tasks :
        /\ \A k \in 1..(Len(tasks[i].trail) - 1) :
              ~LocalDeclaration(tasks[i].trail[k])
        /\ tasks[i].pc = "done" /\ LocalDeclaration(tasks[i].outSpecifier)
            => /\ tasks[i].outSpecifier = tasks[i].trail[Len(tasks[i].trail)]
               /\ tasks[i].outSpecifier.path # NoPath
               /\ tasks[i].outSpecifier # MatchedExport(tasks[i].outSpecifier)
               /\ MatchedExport(tasks[i].outSpecifier).exportedName
                     = tasks[i].outSpecifier.searchName

\* A chain has made a hop and has ended at a local declaration.
C27_Witness ==
    \E i \in Tasks :
        /\ tasks[i].pc = "done"
        /\ Len(tasks[i].trail) >= 2
        /\ LocalDeclaration(tasks[i].outSpecifier)

(***************************************************************************)
(* The searchName of the export specifiers the extractor produces.         *)
(***************************************************************************)
\* The export specifiers held in the cache: every one was produced by
\* extractExportSpecifiers for a module that was loaded.
ExtractedExports ==
    UNION {{cache[p].value.exportSpecifiers[e] :
                e \in 1..Len(cache[p].value.exportSpecifiers)} :
           p \in {q \in Files : cache[q].value # NullResult}}

\* C30 (as stated): the searchName of every ExportSpecifier the extractor
\* produces is its localName when it has a sourcePath and its exportedName
\* when it has none.
C30_SearchNameLocalOrExported ==
    \A exp \in ExtractedExports :
        exp.searchName = IF exp.path # NoPath THEN exp.name ELSE exp.exportedName

\* C30 (amended): the searchName of every ExportSpecifier the extractor
\* produces is its importedName when it has a sourcePath (`default` for an
\* export of default type, the localName otherwise) and its localName when it
\* has none.
C30_SearchNameImportedOrLocal ==
    \A exp \in ExtractedExports :
        /\ exp.path # NoPath =>
              /\ exp.searchName = exp.importedName
              /\ exp.importedName = IF exp.type = default THEN default ELSE exp.name
        /\ exp.path = NoPath =>
              /\ exp.importedName = NULL
              /\ exp.searchName = exp.name

\* The extractor has produced a re-export from another module and an
\* aliased export of a local binding.
C30_Witness ==
    /\ \E exp \in ExtractedExports : exp.path # NoPath /\ exp.exportedName # exp.name
    /\ \E exp \in ExtractedExports : exp.path = NoPath /\ exp.exportedName # exp.name

(***************************************************************************)
(* Completion of the transform-loader.  Node's event loop runs every       *)
(* continuation that is ready and Webpack calls back every loadModule it   *)
(* was asked for, so a step of the loader that can be taken is taken.      *)
(***************************************************************************)
\* findExportedSpecifier's loop past MaxDepth hops, for the i-th specifier:
\* the next specifier is in a file already cached, and the loop goes round
\* once more.  The history kept in `trail`, `sideEffects` and `depth` is not
\* extended any further.
findExportedSpecifier_again(i) ==
    /\ UNCHANGED notLoaderVars
    /\ i \in 1..Len(tasks)
    /\ tasks[i].pc = "cached"
    /\ AllStarted
    /\ tasks[i].depth = MaxDepth
    /\ \E found \in {findNextSpecifier(options.doDefaults, options.doSideEffects,
                                       tasks[i].outSpecifier,
                                       cache[tasks[i].outSpecifier.path.resolved].value)} :
          /\ found.specifier # NoSpecifier
          /\ cache[found.specifier.path.resolved] # Undefined
          /\ tasks' = [tasks EXCEPT ![i] =
                [@ EXCEPT !.hadSideEffects = found.hasSideEffects,
                          !.outSpecifier = found.specifier]]
    /\ UNCHANGED <<options, disk, factory, cache, calls, nextId, loads, request, pc,
                   allTransformsMap, context, outcome>>

\* The loader with its loops followed without bound.
NextLive ==
    \/ Next
    \/ \E i \in 1..Len(tasks) : findExportedSpecifier_again(i)

\* The loader is about to run with syncMode, transformDefaultImports and
\* transformSideEffects off; unsafeAstCache may be on or off.
InitLive ==
    /\ Init
    /\ ~options.syncMode
    /\ ~options.doDefaults
    /\ ~options.doSideEffects

SpecLive == InitLive /\ [][NextLive]_vars /\ WF_vars(NextLive)

\* The loader's callback has been called.
CalledBack == outcome.status # "pending"

\* C28: every invocation of the transform-loader eventually calls its
\* callback, and calls it once: what it was called with never changes.
C28_CallsBackExactlyOnce ==
    /\ <>CalledBack
    /\ [][CalledBack => outcome' = outcome]_vars

(***************************************************************************)
(* The future-based SpecResolver (src/specResolver.js): specCache holds    *)
(* one future per module path.  SpecResolver#resolve starts the module's   *)
(* load when it made the future, and SpecResolver#registerModule completes *)
(* the future with the module the loader is running on.  JavaScript runs   *)
(* each continuation to its next await without interruption, so every      *)
(* action below is one such run.                                           *)
(***************************************************************************)
\* The module paths followed.
FuturePaths == {"a", "b"}
\* SpecResolver#resolve is called up to MaxResolves times per module path.
MaxResolves == 2

NoLoadedModule == [request |-> NULL, ast |-> FALSE]
\* A LoadedModule: of state.loadModule (no AST yet) or of the running loader
\* after parseAst (with its AST).
LoadedModule(modulePath, ast) == [request |-> modulePath, ast |-> ast]

\* specCache.get(modulePath) === undefined
NoFutureYet ==
    [completion |-> "undefined", didComplete |-> FALSE, value |-> NoLoadedModule,
     completions |-> 0]

\* utils.future(modulePath, fn): a promise together with its resolve and
\* reject functions and a didComplete flag that either of them sets.
\* `completions` is history: how many times resolve or reject was called.
future(modulePath) ==
    [completion |-> "pending", didComplete |-> FALSE, value |-> NoLoadedModule,
     completions |-> 0]

\* future.resolve(loadedModule)
Future_resolve(this, loadedModule) ==
    [completion |-> IF this.didComplete THEN this.completion ELSE "resolved",
     didComplete |-> TRUE,
     value |-> IF this.didComplete THEN this.value ELSE loadedModule,
     completions |-> this.completions + 1]

\* future.reject(reason)
Future_reject(this, reason) ==
    [completion |-> IF this.didComplete THEN this.completion ELSE "rejected",
     didComplete |-> TRUE,
     value |-> IF this.didComplete THEN this.value ELSE reason,
     completions |-> this.completions + 1]

\* getFutureFor(state, modulePath): the cached future, or a new one, which
\* the caller's action stores (specCache.set).
getFutureFor(cacheNow, modulePath) ==
    IF cacheNow[modulePath] = NoFutureYet
    THEN [isNew |-> TRUE, future |-> future(modulePath)]
    ELSE [isNew |-> FALSE, future |-> cacheNow[modulePath]]

\* A SpecResolver has been constructed; nothing is cached, loading or being
\* registered.
InitFuture ==
    /\ NoLoader
    /\ NoClassifier
    /\ NoRequest
    /\ specCache = [p \in FuturePaths |-> NoFutureYet]
    /\ pendingLoads = [p \in FuturePaths |-> [state |-> "none", resolves |-> 0]]
    /\ registrations = [p \in FuturePaths |-> "idle"]

\* SpecResolver#resolve(state, request) up to its await: the future is
\* fetched or made, and state.loadModule is called when it was made.
SpecResolver_resolve(p) ==
    /\ UNCHANGED notFutureVars
    /\ pendingLoads[p].resolves < MaxResolves
    /\ LET got == getFutureFor(specCache, p)
       IN /\ specCache' = [specCache EXCEPT ![p] = got.future]
          /\ pendingLoads' = [pendingLoads EXCEPT ![p] =
                [state |-> IF got.isNew THEN "pending" ELSE @.state,
                 resolves |-> @.resolves + 1]]
    /\ UNCHANGED registrations

\* The promise of state.loadModule is fulfilled:
\* (loadedModule) => !future.didComplete && future.resolve(loadedModule)
loadModule_fulfilled(p) ==
    /\ UNCHANGED notFutureVars
    /\ pendingLoads[p].state = "pending"
    /\ specCache' = [specCache EXCEPT ![p] =
            IF ~@.didComplete THEN Future_resolve(@, LoadedModule(p, FALSE)) ELSE @]
    /\ pendingLoads' = [pendingLoads EXCEPT ![p].state = "done"]
    /\ UNCHANGED registrations

\* The promise of state.loadModule is rejected:
\* (reason) => !future.didComplete && future.reject(reason)
loadModule_rejected(p) ==
    /\ UNCHANGED notFutureVars
    /\ pendingLoads[p].state = "pending"
    /\ specCache' = [specCache EXCEPT ![p] =
            IF ~@.didComplete THEN Future_reject(@, NoLoadedModule) ELSE @]
    /\ pendingLoads' = [pendingLoads EXCEPT ![p].state = "done"]
    /\ UNCHANGED registrations

\* SpecResolver#registerModule(state, loadedModule) up to its first await,
\* on parseAst.
registerModule(p) ==
    /\ UNCHANGED notFutureVars
    /\ registrations[p] = "idle"
    /\ registrations' = [registrations EXCEPT ![p] = "parseAst"]
    /\ UNCHANGED <<specCache, pendingLoads>>

\* registerModule resuming after parseAst without looking at didComplete.
registerModule_resume_Unguarded(p) ==
    /\ UNCHANGED notFutureVars
    /\ registrations[p] = "parseAst"
    /\ \E parsed \in BOOLEAN :
          IF ~parsed
          THEN /\ registrations' = [registrations EXCEPT ![p] = "threw"]
               /\ UNCHANGED specCache
          ELSE /\ specCache' = [specCache EXCEPT ![p] =
                     Future_resolve(getFutureFor(specCache, p).future,
                                    LoadedModule(p, TRUE))]
               /\ registrations' = [registrations EXCEPT ![p] = "awaitFuture"]
    /\ UNCHANGED pendingLoads

\* registerModule resumes after parseAst: parseAst threw and registerModule
\* is rejected, or the future is fetched or made and, if it did not
\* complete yet, resolved with the loaded module; registerModule then awaits
\* future.promise.
registerModule_resume(p) ==
    /\ UNCHANGED notFutureVars
    /\ registrations[p] = "parseAst"
    /\ \E parsed \in BOOLEAN :
          IF ~parsed
          THEN /\ registrations' = [registrations EXCEPT ![p] = "threw"]
               /\ UNCHANGED specCache
          ELSE LET got == getFutureFor(specCache, p)
               IN /\ specCache' = [specCache EXCEPT ![p] =
                        IF ~got.future.didComplete
                        THEN Future_resolve(got.future, LoadedModule(p, TRUE))
                        ELSE got.future]
                  /\ registrations' = [registrations EXCEPT ![p] = "awaitFuture"]
    /\ UNCHANGED pendingLoads

NextFuture ==
    \/ \E p \in FuturePaths : SpecResolver_resolve(p)
    \/ \E p \in FuturePaths : loadModule_fulfilled(p)
    \/ \E p \in FuturePaths : loadModule_rejected(p)
    \/ \E p \in FuturePaths : registerModule(p)
    \/ \E p \in FuturePaths : registerModule_resume(p)

SpecFuture == InitFuture /\ [][NextFuture]_vars

============================================================================
